---------------------------- MODULE Spec2Model ----------------------------
(***************************************************************************)
(* Model of the MCH2022 WebUSB library: the frame codec and the stream     *)
(* reassembler of BadgeUSB (src/src/badge-usb.ts), the transaction         *)
(* registry with its timeout timers, the transaction Queue                 *)
(* (src/src/lib/queue.ts) and the sync loop of BadgeUSB.connect.           *)
(*                                                                         *)
(* Numbers.  A JavaScript number that is read from or written to a         *)
(* DataView as a Uint32 is modelled as a Word: the tuple <<b3,b2,b1,b0>> of *)
(* its four bytes, most significant first.  Two Uint32 values are equal    *)
(* iff their Words are equal, and no 32-bit value has to fit a TLC         *)
(* integer.  Buffers (ArrayBuffer) are sequences of bytes.                 *)
(*                                                                         *)
(* Scheduling.  JavaScript runs one task at a time.  A timer callback, the *)
(* completion of a USB transfer and the arrival of USB data are tasks;     *)
(* the continuation of an await whose promise is settled is a microtask,   *)
(* and all microtasks run before the next task.  `runnable' holds the      *)
(* calls whose continuation is a pending microtask.                        *)
(***************************************************************************)
EXTENDS Integers, Sequences, FiniteSets, TLC

(***************************************************************************)
(* Bytes, Words and buffers                                                *)
(***************************************************************************)
Pow2(n) == IF n = 0 THEN 1 ELSE IF n = 1 THEN 2 ELSE IF n = 2 THEN 4
           ELSE IF n = 3 THEN 8 ELSE IF n = 4 THEN 16 ELSE IF n = 5 THEN 32
           ELSE IF n = 6 THEN 64 ELSE 128

\* DataView.getUint32(off, littleEndian) of buffer buf (off counted from 0)
getUint32(buf, off, littleEndian) ==
    IF littleEndian
    THEN <<buf[off + 4], buf[off + 3], buf[off + 2], buf[off + 1]>>
    ELSE <<buf[off + 1], buf[off + 2], buf[off + 3], buf[off + 4]>>

\* the four bytes DataView.setUint32(off, w, true) stores, in buffer order
setUint32LE(w) == <<w[4], w[3], w[2], w[1]>>

\* The Word of ToUint32(n) for a number n in -2^31 .. 2^31 - 1: what
\* setUint32 stores for n (a negative n is stored modulo 2^32).
U32(n) ==
    LET m == IF n >= 0 THEN n ELSE (n + 2147483647) + 1
        top == IF n >= 0 THEN 0 ELSE 128
    IN  <<top + (m \div 16777216), (m \div 65536) % 256, (m \div 256) % 256, m % 256>>

\* w <= n, for a Word w and a number n in 0 .. 2^31 - 1
WordLeq(w, n) ==
    /\ w[1] < 128
    /\ ((w[1] * 16777216 + w[2] * 65536) + w[3] * 256) + w[4] <= n

\* the number a Word stands for; used only where WordLeq(w, n) holds
WordVal(w) == ((w[1] * 16777216 + w[2] * 65536) + w[3] * 256) + w[4]

\* ArrayBuffer.slice(from) and slice(from, to), offsets counted from 0
SliceFrom(buf, from) == SubSeq(buf, from + 1, Len(buf))
Slice(buf, from, to) == SubSeq(buf, from + 1, to)

concatBuffers(a, b) == a \o b

(***************************************************************************)
(* CRC-32 (IEEE 802.3, reflected, polynomial 0xEDB88320), bit by bit.      *)
(* A CRC register is the set of the positions 0..31 of its one bits,       *)
(* position 0 the lowest bit; exclusive or is the symmetric difference.    *)
(***************************************************************************)
ByteBits(b, base) == {base + i : i \in {j \in 0..7 : (b \div Pow2(j)) % 2 = 1}}

WordBits(w) ==
    ByteBits(w[4], 0) \cup ByteBits(w[3], 8) \cup ByteBits(w[2], 16) \cup ByteBits(w[1], 24)

BitsByte(c, base) ==
    LET bit(i) == IF (base + i) \in c THEN Pow2(i) ELSE 0
    IN  ((((((bit(0) + bit(1)) + bit(2)) + bit(3)) + bit(4)) + bit(5)) + bit(6)) + bit(7)

BitsWord(c) == <<BitsByte(c, 24), BitsByte(c, 16), BitsByte(c, 8), BitsByte(c, 0)>>

XorBits(a, b) == {i \in 0..31 : (i \in a) # (i \in b)}

CrcPoly == WordBits(<<237, 184, 131, 32>>)

CrcShift(c) ==
    LET s == {i - 1 : i \in c \ {0}}
    IN  IF 0 \in c THEN XorBits(s, CrcPoly) ELSE s

CrcByte(c, b) ==
    LET x == XorBits(c, ByteBits(b, 0))
    IN  CrcShift(CrcShift(CrcShift(CrcShift(CrcShift(CrcShift(CrcShift(CrcShift(x))))))))

RECURSIVE CrcFold(_, _)
CrcFold(c, data) ==
    IF data = <<>> THEN c ELSE CrcFold(CrcByte(c, Head(data)), Tail(data))

\* crc32FromArrayBuffer: the CRC-32 of the payload, as an unsigned 32-bit value
crc32FromArrayBuffer(data) == BitsWord(XorBits(CrcFold(0..31, data), 0..31))

(***************************************************************************)
(* Protocol constants                                                      *)
(***************************************************************************)
PROTOCOL_MAGIC == <<254, 237, 240, 13>>             \* 0xFEEDF00D
FIRMWARE_ERR_MAGIC_START == <<27, 91, 48, 59>>      \* 0x1B5B303B, \x1B[0;
FIRMWARE_ERR_MAGIC_END == <<27, 91, 48, 109>>       \* 0x1B5B306D, \x1B[0m
HeaderLength == 20

\* _encodeCommand: the four ASCII bytes of a mnemonic read as a little-endian Uint32
encodeCommand(ascii) == getUint32(ascii, 0, TRUE)
\* _decodeCommand: the four ASCII bytes of a command or response type
decodeCommand(cmd) == setUint32LE(cmd)

PROTOCOL_COMMAND_SYNC == encodeCommand(<<83, 89, 78, 67>>)              \* "SYNC"
PROTOCOL_COMMAND_APP_LIST == encodeCommand(<<65, 80, 80, 76>>)          \* "APPL"
PROTOCOL_COMMAND_FILESYSTEM_FILE_READ == encodeCommand(<<70, 83, 70, 82>>)   \* "FSFR"
PROTOCOL_COMMAND_FILESYSTEM_FILE_CLOSE == encodeCommand(<<70, 83, 70, 67>>)  \* "FSFC"
PROTOCOL_COMMAND_TRANSFER_CHUNK == encodeCommand(<<67, 72, 78, 75>>)    \* "CHNK"

(***************************************************************************)
(* Frame codec                                                             *)
(***************************************************************************)
\* _sendPacket: the bytes handed to the transport for (id, command, payload);
\* id is the JavaScript number held in nextTransactionID, command a Word.
Packet(id, command, payload) ==
    LET header == (((setUint32LE(PROTOCOL_MAGIC)
                     \o setUint32LE(U32(id)))
                     \o setUint32LE(command))
                     \o setUint32LE(U32(Len(payload))))
                     \o setUint32LE(IF Len(payload) > 0
                                    THEN crc32FromArrayBuffer(payload)
                                    ELSE U32(0))
    IN  concatBuffers(header, payload)

\* the header parsing as it would be without the CRC check
ParsePacketNoCrc(buffer) ==
    LET payloadLength == getUint32(buffer, 12, TRUE)
    IN  [magic |-> getUint32(buffer, 0, TRUE), id |-> getUint32(buffer, 4, TRUE),
         type |-> getUint32(buffer, 8, TRUE), payloadLength |-> payloadLength,
         payloadCRC |-> getUint32(buffer, 16, TRUE),
         payload |-> IF payloadLength # U32(0) THEN SliceFrom(buffer, HeaderLength) ELSE <<>>,
         crcMismatch |-> FALSE]

\* the header parsing as it would be if the CRC of an empty payload were checked too
ParsePacketChecksEmpty(buffer) ==
    LET payloadLength == getUint32(buffer, 12, TRUE)
        payload == IF payloadLength # U32(0) THEN SliceFrom(buffer, HeaderLength) ELSE <<>>
    IN  [magic |-> getUint32(buffer, 0, TRUE), id |-> getUint32(buffer, 4, TRUE),
         type |-> getUint32(buffer, 8, TRUE), payloadLength |-> payloadLength,
         payloadCRC |-> getUint32(buffer, 16, TRUE),
         payload |-> payload,
         crcMismatch |-> crc32FromArrayBuffer(payload) # getUint32(buffer, 16, TRUE)]

\* _handlePacket, lines 521-540: the header fields of a received frame, its
\* payload (read only when payloadLength > 0) and the outcome of the CRC check
ParsePacket(buffer) ==
    LET magic         == getUint32(buffer, 0, TRUE)
        id            == getUint32(buffer, 4, TRUE)
        responseType  == getUint32(buffer, 8, TRUE)
        payloadLength == getUint32(buffer, 12, TRUE)
        payloadCRC    == getUint32(buffer, 16, TRUE)
        hasPayload    == payloadLength # U32(0)
        payload       == IF hasPayload THEN SliceFrom(buffer, HeaderLength) ELSE <<>>
    IN  [magic |-> magic, id |-> id, type |-> responseType,
         payloadLength |-> payloadLength, payloadCRC |-> payloadCRC,
         payload |-> payload,
         crcMismatch |-> hasPayload /\ crc32FromArrayBuffer(payload) # payloadCRC]

(***************************************************************************)
(* Stream reassembler                                                      *)
(***************************************************************************)
\* seekUint8(data, marker): the first offset i with i + 3 < byteLength whose
\* byte is marker, or -1
RECURSIVE SeekUint8From(_, _, _)
SeekUint8From(data, marker, i) ==
    IF ~(i + 3 < Len(data)) THEN -1
    ELSE IF data[i + 1] = marker THEN i
    ELSE SeekUint8From(data, marker, i + 1)

seekUint8(data, marker) == SeekUint8From(data, marker, 0)

\* seekUint32(data, marker, littleEndian): the first offset i with
\* i + 3 < byteLength where the Uint32 read at i is marker, or -1
RECURSIVE SeekUint32From(_, _, _, _)
SeekUint32From(data, marker, littleEndian, i) ==
    IF ~(i + 3 < Len(data)) THEN -1
    ELSE IF getUint32(data, i, littleEndian) = marker THEN i
    ELSE SeekUint32From(data, marker, littleEndian, i + 1)

seekUint32(data, marker, littleEndian) == SeekUint32From(data, marker, littleEndian, 0)

\* the loop of _handleData as it would be if it dropped a buffer in which it
\* finds no magic
RECURSIVE HandleDataLoopDropsNoise(_, _)
HandleDataLoopDropsNoise(buf, out) ==
    IF ~(Len(buf) >= HeaderLength) THEN [frames |-> out, buffer |-> buf]
    ELSE IF getUint32(buf, 0, TRUE) = PROTOCOL_MAGIC THEN
        LET payloadLength == getUint32(buf, 12, TRUE) IN
        IF WordLeq(payloadLength, Len(buf) - HeaderLength)
        THEN LET n == HeaderLength + WordVal(payloadLength)
             IN  HandleDataLoopDropsNoise(SliceFrom(buf, n), Append(out, Slice(buf, 0, n)))
        ELSE [frames |-> out, buffer |-> buf]
    ELSE IF getUint32(buf, 0, FALSE) = FIRMWARE_ERR_MAGIC_START THEN
        LET endPos == seekUint32(buf, FIRMWARE_ERR_MAGIC_END, FALSE) IN
        IF endPos = -1
        THEN [frames |-> out, buffer |-> buf]
        ELSE HandleDataLoopDropsNoise(SliceFrom(buf, endPos + 4), out)
    ELSE
        LET magicPos == seekUint32(buf, PROTOCOL_MAGIC, TRUE) IN
        IF magicPos = -1
        THEN [frames |-> out, buffer |-> <<>>]
        ELSE HandleDataLoopDropsNoise(SliceFrom(buf, magicPos), out)

\* the loop of _handleData as it would be if it took the header off a frame
\* whose payload has not arrived in full
RECURSIVE HandleDataLoopTakesHeader(_, _)
HandleDataLoopTakesHeader(buf, out) ==
    IF ~(Len(buf) >= HeaderLength) THEN [frames |-> out, buffer |-> buf]
    ELSE IF getUint32(buf, 0, TRUE) = PROTOCOL_MAGIC THEN
        LET payloadLength == getUint32(buf, 12, TRUE) IN
        IF WordLeq(payloadLength, Len(buf) - HeaderLength)
        THEN LET n == HeaderLength + WordVal(payloadLength)
             IN  HandleDataLoopTakesHeader(SliceFrom(buf, n), Append(out, Slice(buf, 0, n)))
        ELSE [frames |-> out, buffer |-> SliceFrom(buf, HeaderLength)]
    ELSE IF getUint32(buf, 0, FALSE) = FIRMWARE_ERR_MAGIC_START THEN
        LET endPos == seekUint32(buf, FIRMWARE_ERR_MAGIC_END, FALSE) IN
        IF endPos = -1
        THEN [frames |-> out, buffer |-> buf]
        ELSE HandleDataLoopTakesHeader(SliceFrom(buf, endPos + 4), out)
    ELSE
        LET magicPos == seekUint32(buf, PROTOCOL_MAGIC, TRUE) IN
        IF magicPos = -1
        THEN [frames |-> out, buffer |-> buf]
        ELSE HandleDataLoopTakesHeader(SliceFrom(buf, magicPos), out)

\* The while loop of _handleData on the buffer buf, after the received bytes
\* were appended: the frames passed to _handlePacket so far (out) and the
\* buffer left.  Each branch is one iteration of the loop.
RECURSIVE HandleDataLoop(_, _)
HandleDataLoop(buf, out) ==
    IF ~(Len(buf) >= HeaderLength) THEN [frames |-> out, buffer |-> buf]
    ELSE IF getUint32(buf, 0, TRUE) = PROTOCOL_MAGIC THEN
        LET payloadLength == getUint32(buf, 12, TRUE) IN
        IF WordLeq(payloadLength, Len(buf) - HeaderLength)
        THEN LET n == HeaderLength + WordVal(payloadLength)
             IN  HandleDataLoop(SliceFrom(buf, n), Append(out, Slice(buf, 0, n)))
        ELSE [frames |-> out, buffer |-> buf]           \* wait for more data
    ELSE IF getUint32(buf, 0, FALSE) = FIRMWARE_ERR_MAGIC_START THEN
        LET endPos == seekUint32(buf, FIRMWARE_ERR_MAGIC_END, FALSE) IN
        IF endPos = -1
        THEN [frames |-> out, buffer |-> buf]           \* wait for the end marker
        ELSE HandleDataLoop(SliceFrom(buf, endPos + 4), out)
    ELSE
        LET magicPos == seekUint32(buf, PROTOCOL_MAGIC, TRUE) IN
        IF magicPos = -1
        THEN [frames |-> out, buffer |-> buf]           \* wait for more data
        ELSE HandleDataLoop(SliceFrom(buf, magicPos), out)

\* one iteration as it would be if the frame branch passed the frame to
\* _handlePacket and left it in the buffer
handleDataIterationKeepsFrame(buf) ==
    IF ~(Len(buf) >= HeaderLength) THEN [returns |-> TRUE, frames |-> <<>>, buffer |-> buf]
    ELSE IF getUint32(buf, 0, TRUE) = PROTOCOL_MAGIC THEN
        LET payloadLength == getUint32(buf, 12, TRUE) IN
        IF WordLeq(payloadLength, Len(buf) - HeaderLength)
        THEN LET n == HeaderLength + WordVal(payloadLength)
             IN  [returns |-> FALSE, frames |-> <<Slice(buf, 0, n)>>, buffer |-> buf]
        ELSE [returns |-> TRUE, frames |-> <<>>, buffer |-> buf]
    ELSE IF getUint32(buf, 0, FALSE) = FIRMWARE_ERR_MAGIC_START THEN
        LET endPos == seekUint32(buf, FIRMWARE_ERR_MAGIC_END, FALSE) IN
        IF endPos = -1
        THEN [returns |-> TRUE, frames |-> <<>>, buffer |-> buf]
        ELSE [returns |-> FALSE, frames |-> <<>>, buffer |-> SliceFrom(buf, endPos + 4)]
    ELSE
        LET magicPos == seekUint32(buf, PROTOCOL_MAGIC, TRUE) IN
        IF magicPos = -1
        THEN [returns |-> TRUE, frames |-> <<>>, buffer |-> buf]
        ELSE [returns |-> FALSE, frames |-> <<>>, buffer |-> SliceFrom(buf, magicPos)]

\* One iteration of the while loop of _handleData, lines 474-515, on the
\* buffer buf: whether the loop ends with it (its condition fails, or a
\* branch returns), the frame it passes to _handlePacket, the buffer it leaves.
handleDataIteration(buf) ==
    IF ~(Len(buf) >= HeaderLength) THEN [returns |-> TRUE, frames |-> <<>>, buffer |-> buf]
    ELSE IF getUint32(buf, 0, TRUE) = PROTOCOL_MAGIC THEN
        LET payloadLength == getUint32(buf, 12, TRUE) IN
        IF WordLeq(payloadLength, Len(buf) - HeaderLength)
        THEN LET n == HeaderLength + WordVal(payloadLength)
             IN  [returns |-> FALSE, frames |-> <<Slice(buf, 0, n)>>,
                  buffer |-> SliceFrom(buf, n)]
        ELSE [returns |-> TRUE, frames |-> <<>>, buffer |-> buf]
    ELSE IF getUint32(buf, 0, FALSE) = FIRMWARE_ERR_MAGIC_START THEN
        LET endPos == seekUint32(buf, FIRMWARE_ERR_MAGIC_END, FALSE) IN
        IF endPos = -1
        THEN [returns |-> TRUE, frames |-> <<>>, buffer |-> buf]
        ELSE [returns |-> FALSE, frames |-> <<>>, buffer |-> SliceFrom(buf, endPos + 4)]
    ELSE
        LET magicPos == seekUint32(buf, PROTOCOL_MAGIC, TRUE) IN
        IF magicPos = -1
        THEN [returns |-> TRUE, frames |-> <<>>, buffer |-> buf]
        ELSE [returns |-> FALSE, frames |-> <<>>, buffer |-> SliceFrom(buf, magicPos)]

\* _handleData(buffer) with this.dataBuffer = dataBuffer
handleData(dataBuffer, buffer) == HandleDataLoop(concatBuffers(dataBuffer, buffer), <<>>)

(***************************************************************************)
(* Bounds of the model                                                     *)
(***************************************************************************)
MaxTx == 2             \* transaction() calls made after connect
MaxInFlight == 1       \* requests the device holds unanswered; older ones are lost
TickMs == 2500         \* the longest step by which the model lets time pass

\* The calls of transaction() after connect, numbered in the order in which
\* they are made (one more than MaxTx when the device is silent); 0 is the
\* caller of a chained transfer (readFile, writeFile), which holds a queue
\* token over several calls.
Calls == 1..(MaxTx + 1)
Chain == 0

\* The transactions of a file transfer (open, chunks, close) run one after
\* the other, in one slot.
FileCall == MaxTx + 2
Callers == 1..(MaxTx + 2)

\* The SYNC transactions of the syncIfNeeded loop that caller c of
\* BadgeAPI.transaction started run one after the other, in a slot of their own.
SyncOf(c) == MaxTx + 2 + c
Slots == 1..(2 * (MaxTx + 2))
Tasks == 0..(2 * (MaxTx + 2))

\* timeouts (ms) that callers pass to transaction(); 0 is the default
Timeouts == {0, 4000}
SyncTimeout == 100
TurnSlack == 500
defaultTimeout == 5000
MaxSyncTries == 100
MinProtocolVersion == 2

\* What the device may answer: its command or the error code ERR5, a
\* payload, and whether the payload_crc field matches the payload.
ERR5 == encodeCommand(<<69, 82, 82, 53>>)                               \* "ERR5"
Response(isError, payload, tamper) ==
    [isError |-> isError, payload |-> payload, tamper |-> tamper]
Responses ==
    {Response(FALSE, <<2, 0>>, FALSE), Response(TRUE, <<>>, FALSE),
     Response(FALSE, <<2, 0>>, TRUE), Response(TRUE, <<2, 0>>, TRUE),
     Response(FALSE, <<>>, TRUE)}
ChainResponses == {Response(FALSE, <<2, 0>>, FALSE)}
SyncResponses ==
    {Response(FALSE, <<2, 0>>, FALSE), Response(FALSE, <<1, 0>>, FALSE),
     Response(FALSE, <<>>, FALSE), Response(TRUE, <<>>, FALSE),
     Response(FALSE, <<3, 0>>, TRUE)}

(***************************************************************************)
(* State                                                                   *)
(***************************************************************************)
VARIABLES
    transactionQueue,   \* the Queue: [nextToken, current, queue, timeoutHandle]
    inSync,             \* BadgeUSB.inSync
    connected,          \* BadgeUSB.connected
    nextTransactionID,  \* BadgeUSB.nextTransactionID
    transactions,       \* the ids present in BadgeUSB.transactions
    promise,            \* the TransactionPromise of every id still referenced
    dataBuffer,         \* BadgeUSB.dataBuffer
    task,               \* per call of transaction(): where it is, and its locals
    runnable,           \* tasks whose await continuation is a pending microtask
    conn,               \* BadgeUSB.connect(): [pc, n, protocolVersion]
    devInbox,           \* requests the device received and has not answered
    usbIn,              \* chunks the device sent that _listen has not read yet
    stream,             \* a byte stream fed to _handleData in chunks: [todo, whole, frames]
    codec,              \* a frame through _sendPacket and _handlePacket: [id, command, payload, sent, decoded]
    resync,             \* per caller of BadgeAPI.transaction: the syncIfNeeded loop it started, [pc, tries]
    xfer,               \* a file transfer (readFile): [pc, parts, error]
    loop,               \* a chunk loop alone: [api, pc, chunks, accepted, remaining, position, total]
    link,               \* the receive task and disconnect(): [listening, reading, lost, teardown]
    nvs                 \* an NVS type name through the two converters: [type, name, pc, text, number]

\* the state of the BadgeAPI layer, of the receive task and of the NVS helpers
apiVars == <<resync, xfer, loop, link, nvs>>

vars == <<transactionQueue, inSync, connected, nextTransactionID, transactions,
          promise, dataBuffer, task, runnable, conn, devInbox, usbIn, stream, codec, apiVars>>

\* An optional value (undefined or a value) is a set with at most one element.
The(s) == CHOOSE x \in s : TRUE

\* no call of BadgeAPI.transaction was made
NoResync == [c \in Callers |-> [pc |-> "none", tries |-> 0]]

\* no file transfer was started
NoXfer == [pc |-> "none", parts |-> 0, error |-> "none"]

\* no chunk loop is followed
NoLoop == [api |-> "none", pc |-> "none", chunks |-> <<>>, accepted |-> <<>>,
           remaining |-> 0, position |-> 0, total |-> 0]

\* _listen() is running and nothing was torn down
NoLink == [listening |-> TRUE, reading |-> TRUE, lost |-> FALSE, teardown |-> "none"]

\* no type name is being converted
NoNvs == [type |-> 0, name |-> "", pc |-> "none", text |-> {}, number |-> {}]

InitApi == resync = NoResync /\ xfer = NoXfer /\ loop = NoLoop /\ link = NoLink /\ nvs = NoNvs

NoStream == [todo |-> <<>>, whole |-> <<>>, frames |-> <<>>]
NoCodec == [id |-> 0, command |-> PROTOCOL_COMMAND_SYNC, payload |-> <<>>, sent |-> <<>>,
            decoded |-> {}]

(***************************************************************************)
(* Queue (src/src/lib/queue.ts), as operators on the queue record          *)
(***************************************************************************)
NewQueue == [nextToken |-> 0, current |-> {}, queue |-> <<>>, timeoutHandle |-> {}]

clearTimeout(q) == [q EXCEPT !.timeoutHandle = {}]

\* resetTimeout as it would be if it cleared the timer and armed none
resetTimeoutArmsNone(q, timeout) == [q EXCEPT !.timeoutHandle = {}]

\* resetTimeout(timeout = this.defaultTimeout): the timer carries this.current
resetTimeout(q, timeout) ==
    [q EXCEPT !.timeoutHandle =
        {[left  |-> IF timeout = {} THEN defaultTimeout ELSE The(timeout),
          token |-> q.current]}]

\* waitTurn as it would be if a caller without the current token were given
\* a new token instead of being queued
waitTurnNeverQueues(q, c, token, turnTimeout) ==
    IF q.current # {} /\ token = q.current
    THEN [q |-> resetTimeout(q, turnTimeout), granted |-> token]
    ELSE LET q1 == [q EXCEPT !.current = {q.nextToken}, !.nextToken = q.nextToken + 1]
         IN  [q |-> resetTimeout(q1, turnTimeout), granted |-> q1.current]

\* waitTurn as it would be if it let every caller pass that presents a token
waitTurnAnyToken(q, c, token, turnTimeout) ==
    IF q.current = {}
    THEN LET q1 == [q EXCEPT !.current = {q.nextToken}, !.nextToken = q.nextToken + 1]
         IN  [q |-> resetTimeout(q1, turnTimeout), granted |-> q1.current]
    ELSE IF token # {}
    THEN [q |-> resetTimeout(q, turnTimeout), granted |-> token]
    ELSE [q |-> [q EXCEPT !.queue = Append(@, [resolve |-> c, timeout |-> turnTimeout])],
          granted |-> {}]

\* waitTurn({token, turnTimeout}) called by task c: the queue afterwards and
\* the token the returned promise is already resolved with ({} when c waits)
waitTurn(q, c, token, turnTimeout) ==
    IF q.current = {}
    THEN LET q1 == [q EXCEPT !.current = {q.nextToken}, !.nextToken = q.nextToken + 1]
         IN  [q |-> resetTimeout(q1, turnTimeout), granted |-> q1.current]
    ELSE IF token = q.current
    THEN [q |-> resetTimeout(q, turnTimeout), granted |-> token]
    ELSE [q |-> [q EXCEPT !.queue = Append(@, [resolve |-> c, timeout |-> turnTimeout])],
          granted |-> {}]

\* release(token) as it would be if it took the waiter from the end of the list
releaseLast(q, token) ==
    IF token = q.current
    THEN IF q.queue # <<>>
         THEN LET p  == q.queue[Len(q.queue)]
                  q1 == [q EXCEPT !.queue = SubSeq(@, 1, Len(@) - 1),
                                  !.current = {q.nextToken},
                                  !.nextToken = q.nextToken + 1]
              IN  [q |-> [q1 EXCEPT !.timeoutHandle =
                            {[left  |-> IF p.timeout = {} THEN defaultTimeout
                                        ELSE The(p.timeout),
                              token |-> q1.current]}],
                   woken |-> {[task |-> p.resolve, token |-> q.nextToken]}]
         ELSE [q |-> [q EXCEPT !.current = {}, !.timeoutHandle = {}], woken |-> {}]
    ELSE [q |-> q, woken |-> {}]

\* release(token) as it would be without the comparison of the token with
\* the current one
releaseAnyToken(q, token) ==
    IF q.queue # <<>>
    THEN LET p  == Head(q.queue)
             q1 == [q EXCEPT !.queue = Tail(@), !.current = {q.nextToken},
                             !.nextToken = q.nextToken + 1]
         IN  [q |-> resetTimeout(q1, p.timeout),
              woken |-> {[task |-> p.resolve, token |-> q.nextToken]}]
    ELSE [q |-> clearTimeout([q EXCEPT !.current = {}]), woken |-> {}]

\* release(token): the queue afterwards and the waiter whose promise was
\* resolved, with the token it got
release(q, token) ==
    IF token = q.current
    THEN IF q.queue # <<>>
         THEN LET p  == Head(q.queue)
                  q1 == [q EXCEPT !.queue = Tail(@), !.current = {q.nextToken},
                                  !.nextToken = q.nextToken + 1]
              IN  [q |-> resetTimeout(q1, p.timeout),
                   woken |-> {[task |-> p.resolve, token |-> q.nextToken]}]
         ELSE [q |-> clearTimeout([q EXCEPT !.current = {}]), woken |-> {}]
    ELSE [q |-> q, woken |-> {}]

\* the tasks suspended in waitTurn
Waiting(q) == {q.queue[i].resolve : i \in 1..Len(q.queue)}

(***************************************************************************)
(* TransactionPromise: a DeferredPromise with a timeout handle.  A promise *)
(* settles once: resolve and reject on a settled promise change nothing.   *)
(***************************************************************************)
NewPromise ==
    [state |-> "pending", error |-> "none", response |-> {}, timer |-> "none", left |-> 0]

resolvePromise(pr, response) ==
    IF pr.state = "pending"
    THEN [pr EXCEPT !.state = "resolved", !.response = {response}]
    ELSE pr

rejectPromise(pr, error) ==
    IF pr.state = "pending"
    THEN [pr EXCEPT !.state = "rejected", !.error = error]
    ELSE pr

\* clearTimeout(transaction.timeout) as it would be if the timer were left armed
keepTimer(pr) == pr

\* clearTimeout(transaction.timeout)
clearTimer(pr) == IF pr.timer = "armed" THEN [pr EXCEPT !.timer = "cleared", !.left = 0] ELSE pr

\* (nextTransactionID + 1) & 0xFFFFFFFF: the bitwise and yields a signed 32-bit number
NextID(id) == IF id = 2147483647 THEN (-2147483647) - 1 ELSE id + 1

\* the lookup as it would be if a frame were matched to any registered transaction
RegisteredAny(reg, idWord) == reg

\* `id in this.transactions' for the Uint32 id of a received header: the
\* registered keys equal to it (a key is the number transaction() stored)
Registered(reg, idWord) == {k \in reg : k >= 0 /\ U32(k) = idWord}

\* the tasks inside transaction(), which hold a reference to their promise
InCall(tk) == {c \in Slots : tk[c].pc \in {"waitTurn", "sendPacket", "awaitResponse"}}

\* The promises still referenced: registered, with an armed timer, or the
\* promise of a call that has not returned.  The others are garbage.
Collect(pr, tk, reg) ==
    [id \in {i \in DOMAIN pr : \/ i \in reg
                               \/ pr[i].timer = "armed"
                               \/ \E c \in InCall(tk) : tk[c].id = {i}} |-> pr[id]]

\* the tasks t with the token of each woken waiter stored in it
Wake(t, woken) ==
    [d \in Tasks |-> IF \E w \in woken : w.task = d
                     THEN [t[d] EXCEPT !.token = {(The(woken)).token}]
                     ELSE t[d]]

\* a call that was not made yet; task[Chain] uses pc, token and held only;
\* returned is the payload that the call returned, code the type code of
\* the response that the BadgeUSBError it threw was made of
NewTask ==
    [pc |-> "new", id |-> {}, command |-> PROTOCOL_COMMAND_SYNC, payload |-> <<>>,
     timeout |-> 0, queueToken |-> {}, chained |-> FALSE, token |-> {}, held |-> {},
     result |-> "none", returned |-> {}, code |-> {}]

\* no await continuation is pending: the event loop may start the next task
NoMicrotask ==
    /\ runnable = {}
    /\ ~(conn.pc = "sync" /\ task[1].pc = "done")
    /\ \A c \in Callers : ~(resync[c].pc = "sync" /\ task[SyncOf(c)].pc = "done")
    /\ ~(xfer.pc \in {"open", "chunk", "close"} /\ task[Chain].pc = "holding")

(***************************************************************************)
(* BadgeUSB.transaction                                                    *)
(***************************************************************************)
\* the fields of the session that transaction() changes before its first await
Badge ==
    [transactionQueue |-> transactionQueue, nextTransactionID |-> nextTransactionID,
     task |-> task, promise |-> promise, runnable |-> runnable]

\* transaction(), lines 292-301, as call c, on the fields b: the id is taken,
\* then the call awaits Queue.waitTurn (which runs to its first await at once)
startTransaction(b, c, command, payload, timeout, queueToken, chained) ==
    LET w  == waitTurn(b.transactionQueue, c, queueToken,
                       IF timeout > 0 THEN {timeout + TurnSlack} ELSE {})
        tk == [b.task EXCEPT ![c] =
                [NewTask EXCEPT !.pc = "waitTurn", !.id = {b.nextTransactionID},
                                !.command = command, !.payload = payload,
                                !.timeout = timeout, !.queueToken = queueToken,
                                !.chained = chained, !.token = w.granted]]
    IN  [transactionQueue  |-> w.q,
         nextTransactionID |-> NextID(b.nextTransactionID),
         task              |-> tk,
         promise           |-> Collect(b.promise @@ (b.nextTransactionID :> NewPromise), tk,
                                       transactions),
         runnable          |-> IF w.granted # {} THEN b.runnable \cup {c} ELSE b.runnable]

\* the step that leaves the fields b
Becomes(b) ==
    /\ transactionQueue' = b.transactionQueue
    /\ nextTransactionID' = b.nextTransactionID
    /\ task' = b.task
    /\ promise' = b.promise
    /\ runnable' = b.runnable

\* transaction(), lines 292-301, as call c.  tk is the task state the call
\* starts from.
StartTransaction(tk, c, command, payload, timeout, queueToken, chained) ==
    Becomes(startTransaction([Badge EXCEPT !.task = tk], c, command, payload, timeout,
                             queueToken, chained))

\* a caller calls badge.transaction(APPL, null, timeout) without a token
Call(c, timeout) ==
    /\ conn.pc = "connected"
    /\ task[c].pc = "new"
    /\ c > 1 => task[c - 1].pc # "new"
    /\ StartTransaction(task, c, PROTOCOL_COMMAND_APP_LIST, <<>>, timeout, {}, FALSE)
    /\ UNCHANGED <<inSync, connected, transactions, dataBuffer, conn, devInbox, usbIn,
                   stream, codec, apiVars>>

\* the caller of a chained transfer calls badge.transaction(APPL, null,
\* timeout, queueToken) with the token it got from waitTurn()
ChainCall(c, timeout) ==
    /\ conn.pc = "connected"
    /\ task[c].pc = "new"
    /\ c > 1 => task[c - 1].pc # "new"
    /\ task[Chain].pc = "holding"
    /\ StartTransaction([task EXCEPT ![Chain].pc = "inCall"], c, PROTOCOL_COMMAND_APP_LIST,
                        <<>>, timeout, task[Chain].held, TRUE)
    /\ UNCHANGED <<inSync, connected, transactions, dataBuffer, conn, devInbox, usbIn,
                   stream, codec, apiVars>>

\* the device end of the OUT endpoint: the request of a frame written by
\* _dataTransferOut, as the device reads it
Request(packet) ==
    LET h == ParsePacket(packet) IN [id |-> h.id, command |-> h.type]

\* the device keeps the newest requests: MaxInFlight of them, and during
\* connect() only the last one
Receive(inbox, req) ==
    LET all == Append(inbox, req)
        size == IF conn.pc = "connected" THEN MaxInFlight ELSE 1
    IN  IF Len(all) > size THEN Tail(all) ELSE all

\* the admission as it would be if the timeout timer were armed for longer
\* than the turn of the queue lasts
AdmitLateTimer(c) ==
    /\ c \in runnable
    /\ task[c].pc = "waitTurn"
    /\ LET id == The(task[c].id)
           packet == Packet(id, task[c].command, task[c].payload)
       IN  /\ transactions' = transactions \cup {id}
           /\ promise' = IF task[c].timeout > 0
                         THEN [promise EXCEPT ![id].timer = "armed",
                                              ![id].left = task[c].timeout + 2 * TurnSlack]
                         ELSE promise
           /\ devInbox' = Receive(devInbox, Request(packet))
    /\ task' = [task EXCEPT ![c].pc = "sendPacket"]
    /\ runnable' = runnable \ {c}
    /\ UNCHANGED <<transactionQueue, inSync, connected, nextTransactionID, dataBuffer,
                   conn, usbIn, stream, codec, apiVars>>

\* transaction(), lines 303-329, resumed with the token: register the
\* promise, arm the timeout timer, and _sendPacket up to its transferOut.
Admit(c) ==
    /\ c \in runnable
    /\ task[c].pc = "waitTurn"
    /\ LET id == The(task[c].id)
           packet == Packet(id, task[c].command, task[c].payload)
       IN  /\ transactions' = transactions \cup {id}
           /\ promise' = IF task[c].timeout > 0
                         THEN [promise EXCEPT ![id].timer = "armed",
                                              ![id].left = task[c].timeout]
                         ELSE promise
           /\ devInbox' = Receive(devInbox, Request(packet))
    /\ task' = [task EXCEPT ![c].pc = "sendPacket"]
    /\ runnable' = runnable \ {c}
    /\ UNCHANGED <<transactionQueue, inSync, connected, nextTransactionID, dataBuffer,
                   conn, usbIn, stream, codec, apiVars>>

\* _sendPacket, lines 462-465, and transaction() up to `await transaction':
\* the transferOut completed.
SendDone(c) ==
    /\ NoMicrotask
    /\ task[c].pc = "sendPacket"
    /\ task' = [task EXCEPT ![c].pc = "awaitResponse"]
    /\ runnable' = IF promise[The(task[c].id)].state # "pending" THEN {c} ELSE {}
    /\ UNCHANGED <<transactionQueue, inSync, connected, nextTransactionID, transactions,
                   promise, dataBuffer, conn, devInbox, usbIn, stream, codec, apiVars>>

\* a call that returned or threw: its locals are gone, its result is kept
Returned(tk, c, result) ==
    [tk EXCEPT ![c] = [NewTask EXCEPT !.pc = "done", !.id = tk[c].id,
                                      !.timeout = tk[c].timeout,
                                      !.chained = tk[c].chained, !.result = result],
               ![Chain].pc = IF tk[c].chained THEN "holding" ELSE @]

\* the transferOut of _sendPacket failed: the rejection leaves transaction()
\* at line 329, before its try block.
SendFail(c) ==
    /\ NoMicrotask
    /\ task[c].pc = "sendPacket"
    /\ task' = Returned(task, c, "TransferError")
    /\ promise' = Collect(promise, task', transactions)
    /\ UNCHANGED <<transactionQueue, inSync, connected, nextTransactionID, transactions,
                   dataBuffer, runnable, conn, devInbox, usbIn, stream, codec, apiVars>>

\* what transaction() would return or throw if line 345 did not compare the
\* type of the response with the command
OutcomeIgnoresType(pr, command) ==
    IF pr.state = "rejected"
    THEN IF pr.error = "timeout" THEN "TimeoutError" ELSE "RXError"
    ELSE "success"

\* what transaction() returns or throws once its promise is settled,
\* lines 331-350
Outcome(pr, command) ==
    IF pr.state = "rejected"
    THEN IF pr.error = "timeout" THEN "TimeoutError" ELSE "RXError"
    ELSE IF (The(pr.response)).type # command THEN "BadgeUSBError" ELSE "success"

\* the payload transaction() returned, for a call whose outcome is success
Payload(pr) == (The(pr.response)).payload

\* the code of the BadgeUSBError, line 346: response.typeCode, the four
\* characters that the type of the response decodes to
ErrorCode(pr) == (The(pr.response)).type

\* transaction(), lines 331-350, resumed with the settled promise: the
\* finally block releases the token when no queueToken was passed.
Finish(c) ==
    /\ c \in runnable
    /\ task[c].pc = "awaitResponse"
    /\ LET r == IF task[c].queueToken = {}
                THEN release(transactionQueue, task[c].token)
                ELSE [q |-> transactionQueue, woken |-> {}]
           pr == promise[The(task[c].id)]
       IN  /\ transactionQueue' = r.q
           /\ task' = Wake([Returned(task, c, Outcome(pr, task[c].command))
                               EXCEPT ![c].returned =
                                   IF Outcome(pr, task[c].command) = "success"
                                   THEN {Payload(pr)} ELSE {},
                                      ![c].code =
                                   IF Outcome(pr, task[c].command) = "BadgeUSBError"
                                   THEN {ErrorCode(pr)} ELSE {}],
                            r.woken)
           /\ runnable' = (runnable \ {c}) \cup {w.task : w \in r.woken}
           /\ conn' = IF conn.pc = "sync" /\ Outcome(pr, task[c].command) = "success"
                      THEN [conn EXCEPT !.payload = {Payload(pr)}]
                      ELSE conn
    /\ promise' = Collect(promise, task', transactions)
    /\ UNCHANGED <<inSync, connected, nextTransactionID, transactions, dataBuffer,
                   devInbox, usbIn, stream, codec, apiVars>>

(***************************************************************************)
(* The receive task: _listen, _handleData, _handlePacket                   *)
(***************************************************************************)
\* _handlePacket as it would be if a CRC failure left the transaction registered
handlePacketKeepsEntry(st, buffer) ==
    LET p   == ParsePacket(buffer)
        hit == Registered(st.transactions, p.id)
    IN  IF hit = {} THEN st
        ELSE LET id == The(hit) IN
             IF p.crcMismatch
             THEN [st EXCEPT !.promise = [@ EXCEPT ![id] = rejectPromise(clearTimer(@), "crc")]]
             ELSE [st EXCEPT !.promise = [@ EXCEPT ![id] =
                                 resolvePromise(clearTimer(@),
                                                [type |-> p.type, payload |-> p.payload])],
                             !.transactions = @ \ {id}]

\* _handlePacket(buffer) on the registry state st = [promise, transactions];
\* the statistics counters, which nothing reads but connectionStats, are left out
handlePacket(st, buffer) ==
    LET p   == ParsePacket(buffer)
        hit == Registered(st.transactions, p.id)
    IN  IF p.crcMismatch
        THEN IF hit # {}
             THEN LET id == The(hit) IN
                  [st EXCEPT !.promise = [@ EXCEPT ![id] = rejectPromise(clearTimer(@), "crc")],
                             !.transactions = @ \ {id}]
             ELSE st
        ELSE IF hit # {}
             THEN LET id == The(hit) IN
                  [st EXCEPT !.promise = [@ EXCEPT ![id] =
                                 resolvePromise(clearTimer(@),
                                                [type |-> p.type, payload |-> p.payload])],
                             !.transactions = @ \ {id}]
             ELSE st

RECURSIVE HandlePackets(_, _)
HandlePackets(st, frames) ==
    IF frames = <<>> THEN st
    ELSE HandlePackets(handlePacket(st, Head(frames)), Tail(frames))

\* the tasks whose awaited promise was settled between promise states old and new
Settled(old, new) ==
    {c \in Slots : /\ task[c].pc = "awaitResponse"
                   /\ old[The(task[c].id)].state = "pending"
                   /\ new[The(task[c].id)].state # "pending"}

\* _listen, lines 392-394: a transferIn completed with one chunk, which
\* _handleData appends, splits into frames and dispatches.
Listen ==
    /\ NoMicrotask
    /\ link.listening
    /\ usbIn # <<>>
    /\ LET r  == handleData(dataBuffer, Head(usbIn))
           st == HandlePackets([promise |-> promise, transactions |-> transactions],
                               r.frames)
       IN  /\ dataBuffer' = r.buffer
           /\ promise' = Collect(st.promise, task, st.transactions)
           /\ transactions' = st.transactions
           /\ runnable' = Settled(promise, st.promise)
    /\ usbIn' = Tail(usbIn)
    /\ UNCHANGED <<transactionQueue, inSync, connected, nextTransactionID, task, conn,
                   devInbox, stream, codec, apiVars>>

\* _listen, lines 395-399: the transferIn it awaits threw.  The catch block
\* clears `listening' and calls the onConnectionLost callback.
ListenFails ==
    /\ NoMicrotask
    /\ link.listening
    /\ link' = [link EXCEPT !.listening = FALSE, !.reading = FALSE, !.lost = TRUE]
    /\ UNCHANGED <<transactionQueue, inSync, connected, nextTransactionID, transactions,
                   promise, dataBuffer, task, runnable, conn, devInbox, usbIn, stream, codec,
                   resync, xfer, loop, nvs>>

\* _listen, line 393: the transferIn that was pending when _stopListening
\* cleared `listening' completes; its chunk is dropped and the loop ends.
ListenBreaks ==
    /\ NoMicrotask
    /\ ~link.listening
    /\ link.reading
    /\ usbIn # <<>>
    /\ usbIn' = Tail(usbIn)
    /\ link' = [link EXCEPT !.reading = FALSE]
    /\ UNCHANGED <<transactionQueue, inSync, connected, nextTransactionID, transactions,
                   promise, dataBuffer, task, runnable, conn, devInbox, stream, codec,
                   resync, xfer, loop, nvs>>

\* disconnect(), lines 161-170, up to its first await: assertConnected(),
\* `connected = false', and _stopListening(), lines 405-409, which clears
\* `listening' and hands a SYNC frame with id 0 to _sendPacket.
Disconnect ==
    /\ NoMicrotask
    /\ connected
    /\ connected' = FALSE
    /\ IF link.listening
       THEN /\ link' = [link EXCEPT !.listening = FALSE, !.teardown = "closing"]
            /\ devInbox' = Receive(devInbox, Request(Packet(0, PROTOCOL_COMMAND_SYNC, <<>>)))
       ELSE /\ link' = [link EXCEPT !.teardown = "closing"]
            /\ UNCHANGED devInbox
    /\ UNCHANGED <<transactionQueue, inSync, nextTransactionID, transactions,
                   promise, dataBuffer, task, runnable, conn, usbIn, stream, codec,
                   resync, xfer, loop, nvs>>

\* disconnect(), lines 171-186: the control transfers and releaseInterface
\* completed or threw, and device.close() closed the device.  A transferIn
\* of _listen that is still pending is rejected, and the catch block of
\* _listen calls the onConnectionLost callback.
DisconnectClose ==
    /\ NoMicrotask
    /\ link.teardown = "closing"
    /\ link' = [link EXCEPT !.teardown = "closed", !.reading = FALSE,
                            !.lost = link.lost \/ link.reading]
    /\ UNCHANGED <<transactionQueue, inSync, connected, nextTransactionID, transactions,
                   promise, dataBuffer, task, runnable, conn, devInbox, usbIn, stream, codec,
                   resync, xfer, loop, nvs>>

\* the timer callback as it would be without `delete this.transactions[id]'
TimerFireKeepsEntry(id) ==
    /\ NoMicrotask
    /\ promise[id].timer = "armed"
    /\ promise[id].left = 0
    /\ LET fired == [promise EXCEPT ![id] =
                         [rejectPromise(@, "timeout") EXCEPT !.timer = "fired"]]
       IN  /\ promise' = Collect(fired, task, transactions)
           /\ runnable' = Settled(promise, fired)
    /\ inSync' = FALSE
    /\ UNCHANGED <<transactionQueue, connected, nextTransactionID, transactions, dataBuffer,
                   task, conn, devInbox, usbIn, stream, codec, apiVars>>

\* the timer callback as it would be without `this.inSync = false'
TimerFireKeepsInSync(id) ==
    /\ NoMicrotask
    /\ promise[id].timer = "armed"
    /\ promise[id].left = 0
    /\ LET fired == [promise EXCEPT ![id] =
                         [rejectPromise(@, "timeout") EXCEPT !.timer = "fired"]]
       IN  /\ promise' = Collect(fired, task, transactions \ {id})
           /\ runnable' = Settled(promise, fired)
    /\ transactions' = transactions \ {id}
    /\ UNCHANGED <<transactionQueue, inSync, connected, nextTransactionID, dataBuffer, task,
                   conn, devInbox, usbIn, stream, codec, apiVars>>

\* the timeout timer of transaction id fires, lines 313-326
TimerFire(id) ==
    /\ NoMicrotask
    /\ promise[id].timer = "armed"
    /\ promise[id].left = 0
    /\ LET fired == [promise EXCEPT ![id] =
                         [rejectPromise(@, "timeout") EXCEPT !.timer = "fired"]]
       IN  /\ promise' = Collect(fired, task, transactions \ {id})
           /\ runnable' = Settled(promise, fired)
    /\ transactions' = transactions \ {id}
    /\ inSync' = FALSE
    /\ UNCHANGED <<transactionQueue, connected, nextTransactionID, dataBuffer, task, conn,
                   devInbox, usbIn, stream, codec, apiVars>>

(***************************************************************************)
(* Queue timer, direct use of the queue, time                              *)
(***************************************************************************)
\* the expiry timer as it would be if its callback did not call release
QueueTimerFireNoRelease ==
    /\ NoMicrotask
    /\ transactionQueue.timeoutHandle # {}
    /\ (The(transactionQueue.timeoutHandle)).left = 0
    /\ transactionQueue' = clearTimeout(transactionQueue)
    /\ UNCHANGED <<inSync, connected, nextTransactionID, transactions, promise, dataBuffer,
                   task, runnable, conn, devInbox, usbIn, stream, codec, apiVars>>

\* the expiry timer of the queue fires, queue.ts lines 56-59
QueueTimerFire ==
    /\ NoMicrotask
    /\ transactionQueue.timeoutHandle # {}
    /\ (The(transactionQueue.timeoutHandle)).left = 0
    /\ LET r == release(clearTimeout(transactionQueue),
                        (The(transactionQueue.timeoutHandle)).token)
       IN  /\ transactionQueue' = r.q
           /\ task' = Wake(task, r.woken)
           /\ runnable' = {w.task : w \in r.woken}
    /\ UNCHANGED <<inSync, connected, nextTransactionID, transactions, promise, dataBuffer,
                   conn, devInbox, usbIn, stream, codec, apiVars>>

\* the caller of a chained transfer (readFile, writeFile) calls
\* transactionQueue.waitTurn() to hold the queue over several transactions
ChainWaitTurn ==
    /\ conn.pc = "connected"
    /\ task[Chain].pc = "new"
    /\ LET w == waitTurn(transactionQueue, Chain, {}, {})
       IN  /\ transactionQueue' = w.q
           /\ task' = [task EXCEPT ![Chain].pc = "chainWaitTurn", ![Chain].token = w.granted]
           /\ runnable' = IF w.granted # {} THEN runnable \cup {Chain} ELSE runnable
    /\ UNCHANGED <<inSync, connected, nextTransactionID, transactions, promise, dataBuffer,
                   conn, devInbox, usbIn, stream, codec, apiVars>>

\* the chained transfer resumes with its token
ChainGranted ==
    /\ Chain \in runnable
    /\ task[Chain].pc = "chainWaitTurn"
    /\ task' = [task EXCEPT ![Chain].pc = "holding", ![Chain].held = task[Chain].token,
                            ![Chain].token = {}]
    /\ runnable' = runnable \ {Chain}
    /\ UNCHANGED <<transactionQueue, inSync, connected, nextTransactionID, transactions,
                   promise, dataBuffer, conn, devInbox, usbIn, stream, codec, apiVars>>

\* the chained transfer ends: transactionQueue.release(queueToken)
ChainRelease ==
    /\ task[Chain].pc = "holding"
    /\ LET r == release(transactionQueue, task[Chain].held)
           t1 == [task EXCEPT ![Chain].held = {}, ![Chain].pc = "done"]
       IN  /\ transactionQueue' = r.q
           /\ task' = Wake(t1, r.woken)
           /\ runnable' = runnable \cup {w.task : w \in r.woken}
    /\ UNCHANGED <<inSync, connected, nextTransactionID, transactions, promise, dataBuffer,
                   conn, devInbox, usbIn, stream, codec, apiVars>>

\* the times left on the armed timers
TimersLeft ==
    {promise[id].left : id \in {i \in DOMAIN promise : promise[i].timer = "armed"}}
    \cup {h.left : h \in transactionQueue.timeoutHandle}

Min(S) == CHOOSE x \in S : \A y \in S : x <= y

\* time passes, up to the next timer that is due; data that arrived is read
\* first
Tick ==
    /\ NoMicrotask
    /\ usbIn = <<>>
    /\ TimersLeft # {}
    /\ 0 \notin TimersLeft
    /\ LET d == IF Min(TimersLeft) < TickMs THEN Min(TimersLeft) ELSE TickMs
       IN  /\ promise' = [id \in DOMAIN promise |->
                            IF promise[id].timer = "armed"
                            THEN [promise[id] EXCEPT !.left = @ - d]
                            ELSE promise[id]]
           /\ transactionQueue' = [transactionQueue EXCEPT !.timeoutHandle =
                                      {[h EXCEPT !.left = @ - d] : h \in @}]
    /\ UNCHANGED <<inSync, connected, nextTransactionID, transactions, dataBuffer, task,
                   runnable, conn, devInbox, usbIn, stream, codec, apiVars>>

(***************************************************************************)
(* The device                                                              *)
(***************************************************************************)
\* the word w with its lowest bit flipped
FlipBit(w) == <<w[1], w[2], w[3], IF w[4] % 2 = 0 THEN w[4] + 1 ELSE w[4] - 1>>

\* a response frame as the device writes it; with tamper its payload_crc
\* field does not match the payload
DeviceFrame(id, type, payload, tamper) ==
    LET crc == IF Len(payload) > 0 THEN crc32FromArrayBuffer(payload) ELSE U32(0)
    IN  (((((setUint32LE(PROTOCOL_MAGIC) \o setUint32LE(id)) \o setUint32LE(type))
            \o setUint32LE(U32(Len(payload))))
            \o setUint32LE(IF tamper THEN FlipBit(crc) ELSE crc))
            \o payload)

\* the device answers its i-th unanswered request: with the command or an
\* error code
DeviceRespond(i, resp) ==
    /\ NoMicrotask
    /\ usbIn = <<>>
    /\ devInbox' = [j \in 1..(Len(devInbox) - 1) |->
                       IF j < i THEN devInbox[j] ELSE devInbox[j + 1]]
    /\ usbIn' = <<DeviceFrame(devInbox[i].id,
                              IF resp.isError THEN ERR5 ELSE devInbox[i].command,
                              resp.payload, resp.tamper)>>
    /\ UNCHANGED <<transactionQueue, inSync, connected, nextTransactionID, transactions,
                   promise, dataBuffer, task, runnable, conn, stream, codec, apiVars>>

\* the offsets at which a transfer ends inside a frame: in the header, and
\* at the end of the header
SplitOffsets == {12, HeaderLength}

\* the same answer, which arrives in two transfers: the first holds the
\* bytes before offset k of the frame, the second the rest
DeviceRespondInParts(i, resp, k) ==
    /\ NoMicrotask
    /\ usbIn = <<>>
    /\ devInbox' = [j \in 1..(Len(devInbox) - 1) |->
                       IF j < i THEN devInbox[j] ELSE devInbox[j + 1]]
    /\ LET frame == DeviceFrame(devInbox[i].id,
                                IF resp.isError THEN ERR5 ELSE devInbox[i].command,
                                resp.payload, resp.tamper)
       IN  /\ k < Len(frame)
           /\ usbIn' = <<Slice(frame, 0, k), SliceFrom(frame, k)>>
    /\ UNCHANGED <<transactionQueue, inSync, connected, nextTransactionID, transactions,
                   promise, dataBuffer, task, runnable, conn, stream, codec, apiVars>>

(***************************************************************************)
(* BadgeUSB.connect: the sync loop, lines 127-150, with sync(), 259-269    *)
(***************************************************************************)
\* DataView.getUint16(0, true) of a payload of at least two bytes
getUint16LE(payload) == payload[1] + 256 * payload[2]

\* the round as it would be with `n++ > 100': the loop gives up one round later
ConnectSyncOffByOne ==
    /\ conn.pc = "loop"
    /\ IF conn.n > MaxSyncTries
       THEN /\ conn' = [conn EXCEPT !.pc = "syncFailed", !.n = conn.n + 1]
            /\ UNCHANGED <<transactionQueue, nextTransactionID, promise, dataBuffer,
                           task, runnable>>
       ELSE /\ conn' = [conn EXCEPT !.pc = "sync", !.n = conn.n + 1, !.payload = {}]
            /\ dataBuffer' = <<>>
            /\ StartTransaction(task, 1, PROTOCOL_COMMAND_SYNC, <<>>, SyncTimeout, {}, FALSE)
    /\ UNCHANGED <<inSync, connected, transactions, devInbox, usbIn, stream, codec, apiVars>>

\* one round of the do-while loop: n is counted, and either the loop gives
\* up or sync() clears the buffer and starts its SYNC transaction
ConnectSync ==
    /\ conn.pc = "loop"
    /\ IF conn.n + 1 > MaxSyncTries
       THEN /\ conn' = [conn EXCEPT !.pc = "syncFailed", !.n = conn.n + 1]
            /\ UNCHANGED <<transactionQueue, nextTransactionID, promise, dataBuffer,
                           task, runnable>>
       ELSE /\ conn' = [conn EXCEPT !.pc = "sync", !.n = conn.n + 1, !.payload = {}]
            /\ dataBuffer' = <<>>
            /\ StartTransaction(task, 1, PROTOCOL_COMMAND_SYNC, <<>>, SyncTimeout, {}, FALSE)
    /\ UNCHANGED <<inSync, connected, transactions, devInbox, usbIn, stream, codec, apiVars>>

\* the continuation of connect() as it would be without `if (protocolVersion < 2) throw'
ConnectSyncDoneAnyVersion ==
    /\ conn.pc = "sync"
    /\ task[1].pc = "done"
    /\ IF task[1].result = "success"
       THEN LET payload == The(conn.payload) IN
            /\ inSync' = TRUE
            /\ IF Len(payload) < 2
               THEN /\ conn' = [conn EXCEPT !.pc = "loop"]      \* getUint16: RangeError
                    /\ UNCHANGED connected
               ELSE IF FALSE
               THEN /\ conn' = [conn EXCEPT !.pc = "unsupported",
                                            !.protocolVersion = {getUint16LE(payload)}]
                    /\ UNCHANGED connected
               ELSE /\ conn' = [conn EXCEPT !.pc = "connected",
                                            !.protocolVersion = {getUint16LE(payload)}]
                    /\ connected' = TRUE
       ELSE /\ conn' = [conn EXCEPT !.pc = "loop"]
            /\ UNCHANGED <<inSync, connected>>
    /\ UNCHANGED <<transactionQueue, nextTransactionID, transactions, promise, dataBuffer,
                   task, runnable, devInbox, usbIn, stream, codec, apiVars>>

\* the SYNC transaction of sync() returned or threw: sync() sets inSync and
\* reads the version, connect() loops, rejects the version or connects
ConnectSyncDone ==
    /\ conn.pc = "sync"
    /\ task[1].pc = "done"
    /\ IF task[1].result = "success"
       THEN LET payload == The(conn.payload) IN
            /\ inSync' = TRUE
            /\ IF Len(payload) < 2
               THEN /\ conn' = [conn EXCEPT !.pc = "loop"]      \* getUint16: RangeError
                    /\ UNCHANGED connected
               ELSE IF getUint16LE(payload) < MinProtocolVersion
               THEN /\ conn' = [conn EXCEPT !.pc = "unsupported",
                                            !.protocolVersion = {getUint16LE(payload)}]
                    /\ UNCHANGED connected
               ELSE /\ conn' = [conn EXCEPT !.pc = "connected",
                                            !.protocolVersion = {getUint16LE(payload)}]
                    /\ connected' = TRUE
       ELSE /\ conn' = [conn EXCEPT !.pc = "loop"]
            /\ UNCHANGED <<inSync, connected>>
    /\ UNCHANGED <<transactionQueue, nextTransactionID, transactions, promise, dataBuffer,
                   task, runnable, devInbox, usbIn, stream, codec, apiVars>>

(***************************************************************************)
(* BadgeAPI.transaction with syncConnection, and BadgeUSB.syncIfNeeded     *)
(***************************************************************************)
MaxResync == 2         \* SYNC transactions the model follows in one syncIfNeeded loop

\* BadgeAPI.transaction(command, payload, timeout, queueToken) as call c on
\* the fields b, badge-api.ts lines 232-235: syncConnection() is called and
\* not awaited.
\* It runs to the first await of syncIfNeeded: when inSync is false that is
\* inside the transaction() that sync() started after clearing the buffer.
\* Then badge.transaction() is called.  Of the loops of one file transfer
\* the model follows one at a time.
ApiTransaction(b, c, command, payload, timeout, queueToken, chained) ==
    IF inSync \/ resync[c].pc = "sync"
    THEN /\ Becomes(startTransaction(b, c, command, payload, timeout, queueToken, chained))
         /\ UNCHANGED <<dataBuffer, resync>>
    ELSE /\ Becomes(startTransaction(
                        startTransaction(b, SyncOf(c),
                                         PROTOCOL_COMMAND_SYNC, <<>>, SyncTimeout, {}, FALSE),
                        c, command, payload, timeout, queueToken, chained))
         /\ dataBuffer' = <<>>
         /\ resync' = [resync EXCEPT ![c] = [pc |-> "sync", tries |-> 1]]

\* a caller calls api.transaction(APPL, null, timeout) without a token
ApiCall(c, timeout) ==
    /\ conn.pc = "connected"
    /\ task[c].pc = "new"
    /\ c > 1 => task[c - 1].pc # "new"
    /\ ApiTransaction(Badge, c, PROTOCOL_COMMAND_APP_LIST, <<>>, timeout, {}, FALSE)
    /\ UNCHANGED <<inSync, connected, transactions, conn, devInbox, usbIn, stream, codec,
                   xfer, loop, link, nvs>>

\* the caller of a chained transfer calls api.transaction(APPL, null,
\* timeout, queueToken) with the token it got from waitTurn()
ApiChainCall(c, timeout) ==
    /\ conn.pc = "connected"
    /\ task[c].pc = "new"
    /\ c > 1 => task[c - 1].pc # "new"
    /\ task[Chain].pc = "holding"
    /\ ApiTransaction([Badge EXCEPT !.task[Chain].pc = "inCall"], c,
                      PROTOCOL_COMMAND_APP_LIST, <<>>, timeout, task[Chain].held, TRUE)
    /\ UNCHANGED <<inSync, connected, transactions, conn, devInbox, usbIn, stream, codec,
                   xfer, loop, link, nvs>>

\* the loop as it would be if sync() did not reset the buffer
ResyncKeepsBuffer(c, cap) ==
    /\ runnable = {}
    /\ resync[c].pc = "sync"
    /\ task[SyncOf(c)].pc = "done"
    /\ IF task[SyncOf(c)].result = "success" \/ inSync
       THEN /\ inSync' = TRUE
            /\ resync' = [resync EXCEPT ![c].pc = "done"]
            /\ UNCHANGED <<transactionQueue, nextTransactionID, task, promise, runnable,
                           dataBuffer>>
       ELSE IF resync[c].tries < cap
       THEN /\ StartTransaction(task, SyncOf(c), PROTOCOL_COMMAND_SYNC, <<>>, SyncTimeout,
                                {}, FALSE)
            /\ resync' = [resync EXCEPT ![c].tries = @ + 1]
            /\ UNCHANGED <<inSync, dataBuffer>>
       ELSE /\ resync' = [resync EXCEPT ![c].pc = "followed"]
            /\ UNCHANGED <<transactionQueue, nextTransactionID, task, promise, runnable,
                           dataBuffer, inSync>>
    /\ UNCHANGED <<connected, transactions, conn, devInbox, usbIn, stream, codec, xfer,
                   loop, link, nvs>>

\* syncIfNeeded, lines 271-278, resumed when the transaction() of sync()
\* returned or threw: sync() sets inSync when it got a response; the loop
\* ends when inSync is true and calls sync() again otherwise.  The woken
\* waiter of the queue resumes before sync() does.  The model follows the
\* loop for cap SYNC transactions.
Resync(c, cap) ==
    /\ runnable = {}
    /\ resync[c].pc = "sync"
    /\ task[SyncOf(c)].pc = "done"
    /\ IF task[SyncOf(c)].result = "success" \/ inSync
       THEN /\ inSync' = TRUE
            /\ resync' = [resync EXCEPT ![c].pc = "done"]
            /\ UNCHANGED <<transactionQueue, nextTransactionID, task, promise, runnable,
                           dataBuffer>>
       ELSE IF resync[c].tries < cap
       THEN /\ StartTransaction(task, SyncOf(c), PROTOCOL_COMMAND_SYNC, <<>>, SyncTimeout,
                                {}, FALSE)
            /\ dataBuffer' = <<>>
            /\ resync' = [resync EXCEPT ![c].tries = @ + 1]
            /\ UNCHANGED inSync
       ELSE /\ resync' = [resync EXCEPT ![c].pc = "followed"]
            /\ UNCHANGED <<transactionQueue, nextTransactionID, task, promise, runnable,
                           dataBuffer, inSync>>
    /\ UNCHANGED <<connected, transactions, conn, devInbox, usbIn, stream, codec, xfer,
                   loop, link, nvs>>

(***************************************************************************)
(* BadgeFileSystemApi.readFile (src/unnamed/part_003), whose transaction   *)
(* is BadgeAPI.transaction                                                 *)
(***************************************************************************)
FileChunkSize == 512
FileTimeout == 4000

\* the do-while condition of readFile: another chunk is requested
readFileContinues(partLength) == partLength = FileChunkSize

\* readFile, lines 118-122: waitTurn() for a token to hold
ReadFile ==
    /\ conn.pc = "connected"
    /\ xfer.pc = "none"
    /\ task[Chain].pc = "new"
    /\ LET w == waitTurn(transactionQueue, Chain, {}, {})
       IN  /\ transactionQueue' = w.q
           /\ task' = [task EXCEPT ![Chain].pc = "chainWaitTurn", ![Chain].token = w.granted]
           /\ runnable' = IF w.granted # {} THEN runnable \cup {Chain} ELSE runnable
    /\ xfer' = [xfer EXCEPT !.pc = "waitTurn"]
    /\ UNCHANGED <<inSync, connected, nextTransactionID, transactions, promise, dataBuffer,
                   conn, devInbox, usbIn, stream, codec, resync,
                   loop, link, nvs>>

\* this.transaction(command, payload, 4000, queueToken) of the transfer that
\* holds the token in the fields b
FileTransaction(b, command, payload) ==
    /\ ApiTransaction([b EXCEPT !.task[Chain].pc = "inCall"], FileCall, command, payload,
                      FileTimeout, b.task[Chain].held, TRUE)
    /\ UNCHANGED <<inSync, connected, transactions, conn, devInbox, usbIn, stream, codec,
                   loop, link, nvs>>

\* closeFile(queueToken), lines 197-201, called in the finally block
CloseFile(error) ==
    /\ FileTransaction(Badge, PROTOCOL_COMMAND_FILESYSTEM_FILE_CLOSE, <<>>)
    /\ xfer' = [xfer EXCEPT !.pc = "close", !.error = error]

\* readFile resumed with its token, lines 122-127: it opens the file
FileGranted ==
    /\ Chain \in runnable
    /\ task[Chain].pc = "chainWaitTurn"
    /\ xfer.pc = "waitTurn"
    /\ FileTransaction([Badge EXCEPT !.task[Chain].held = task[Chain].token,
                                     !.task[Chain].token = {},
                                     !.runnable = runnable \ {Chain}],
                       PROTOCOL_COMMAND_FILESYSTEM_FILE_READ, <<47>>)
    /\ xfer' = [xfer EXCEPT !.pc = "open"]

\* readFile resumed with the result of the open, lines 128-141: the first
\* chunk is requested, or the error leads to the finally block
FileOpened ==
    /\ xfer.pc = "open"
    /\ task[Chain].pc = "holding"
    /\ IF /\ task[FileCall].result = "success"
          /\ Len(The(task[FileCall].returned)) >= 1
          /\ (The(task[FileCall].returned))[1] = 1
       THEN /\ FileTransaction(Badge, PROTOCOL_COMMAND_TRANSFER_CHUNK,
                               setUint32LE(U32(FileChunkSize)))
            /\ xfer' = [xfer EXCEPT !.pc = "chunk"]
       ELSE CloseFile("open")

\* readFile resumed with the result of a chunk, lines 138-148
FileChunk ==
    /\ xfer.pc = "chunk"
    /\ task[Chain].pc = "holding"
    /\ IF task[FileCall].result = "success"
       THEN IF readFileContinues(Len(The(task[FileCall].returned)))
            THEN /\ FileTransaction(Badge, PROTOCOL_COMMAND_TRANSFER_CHUNK,
                                    setUint32LE(U32(FileChunkSize)))
                 /\ xfer' = [xfer EXCEPT !.parts = @ + 1]
            ELSE /\ FileTransaction(Badge, PROTOCOL_COMMAND_FILESYSTEM_FILE_CLOSE, <<>>)
                 /\ xfer' = [xfer EXCEPT !.pc = "close", !.parts = @ + 1]
       ELSE CloseFile("chunk")

\* the finally block resumed with the result of closeFile, lines 147-150:
\* when closeFile threw, release is not reached
FileClosed ==
    /\ xfer.pc = "close"
    /\ task[Chain].pc = "holding"
    /\ IF /\ task[FileCall].result = "success"
          /\ Len(The(task[FileCall].returned)) >= 1
       THEN LET r == release(transactionQueue, task[Chain].held)
            IN  /\ transactionQueue' = r.q
                /\ task' = Wake([task EXCEPT ![Chain].pc = "done"], r.woken)
                /\ runnable' = runnable \cup {w.task : w \in r.woken}
                /\ xfer' = [xfer EXCEPT !.pc = IF xfer.error = "none" THEN "returned"
                                               ELSE "threw"]
       ELSE /\ task' = [task EXCEPT ![Chain].pc = "done"]
            /\ xfer' = [xfer EXCEPT !.pc = "threw", !.error = "close"]
            /\ UNCHANGED <<transactionQueue, runnable>>
    /\ UNCHANGED <<inSync, connected, nextTransactionID, transactions, promise, dataBuffer,
                   conn, devInbox, usbIn, stream, codec, resync,
                   loop, link, nvs>>

(***************************************************************************)
(* The chunk loops of the transfers alone, with the lengths of the chunks  *)
(* the device returns as numbers                                           *)
(***************************************************************************)
MaxChunks == 3         \* chunk transactions one loop is followed for

requested_size == 512
AppChunkSize == 64

\* the loops of src/src/api: `if (part === null || part.byteLength < 1) break'
readContinues(partLength) == ~(partLength < 1)

ReadApis == {"readFile", "filesystem.readFile", "appfs.read"}

\* the chunk size the loop declares in its chunk transactions
DeclaredSize(api) ==
    IF api = "readFile" THEN FileChunkSize
    ELSE IF api = "filesystem.readFile" THEN requested_size
    ELSE AppChunkSize

\* the lengths a chunk of declared size n may have
ChunkLengths(n) == {0, 1, n - 1, n}

\* the session as connect() returns it, and a read loop that opened its file
InitRead ==
    /\ transactionQueue = [NewQueue EXCEPT !.nextToken = 1]
    /\ inSync = TRUE
    /\ connected = TRUE
    /\ nextTransactionID = 1
    /\ transactions = {}
    /\ promise = <<>>
    /\ dataBuffer = <<>>
    /\ task = [c \in Tasks |-> NewTask]
    /\ runnable = {}
    /\ conn = [pc |-> "connected", n |-> 1, protocolVersion |-> {2}, payload |-> {<<2, 0>>}]
    /\ devInbox = <<>>
    /\ usbIn = <<>>
    /\ stream = NoStream
    /\ codec = NoCodec
    /\ resync = NoResync
    /\ xfer = NoXfer
    /\ link = NoLink
    /\ nvs = NoNvs
    /\ \E api \in ReadApis : loop = [NoLoop EXCEPT !.api = api, !.pc = "loop"]

\* all variables but loop
badge == <<transactionQueue, inSync, connected, nextTransactionID, transactions,
           promise, dataBuffer, task, runnable, conn, devInbox, usbIn, stream, codec,
           resync, xfer, link, nvs>>

\* one round of a read loop: the chunk transaction returned partLength
\* bytes, and the loop goes on or leaves for closeFile
ReadChunk(partLength) ==
    /\ loop.api \in ReadApis
    /\ loop.pc = "loop"
    /\ Len(loop.chunks) < MaxChunks
    /\ loop' = [loop EXCEPT
                   !.chunks = Append(@, partLength),
                   !.pc = IF loop.api = "readFile"
                          THEN IF readFileContinues(partLength) THEN "loop" ELSE "close"
                          ELSE IF readContinues(partLength) THEN "loop" ELSE "close"]
    /\ UNCHANGED badge

NextRead == \E partLength \in ChunkLengths(DeclaredSize(loop.api)) : ReadChunk(partLength)

SpecRead == InitRead /\ [][NextRead]_vars

\* the write loops: writeFile of part_003 and of filesystem.ts, write of appfs.ts
WriteApis == {"writeFile", "filesystem.writeFile", "appfs.write"}

FileWriteChunk == 512
AppWriteChunk == 1024

\* the end of data.slice(0, end) in the loop
SliceEnd(api) == IF api = "appfs.write" THEN AppWriteChunk ELSE FileWriteChunk

\* the byte lengths of the data to write, and the counts a response reports
DataLengths == {0, 1, 512, 513, 1025, 1500}
WrittenCounts == {0, 1, 476, 512, 1024}

InitWrite ==
    /\ transactionQueue = [NewQueue EXCEPT !.nextToken = 1]
    /\ inSync = TRUE
    /\ connected = TRUE
    /\ nextTransactionID = 1
    /\ transactions = {}
    /\ promise = <<>>
    /\ dataBuffer = <<>>
    /\ task = [c \in Tasks |-> NewTask]
    /\ runnable = {}
    /\ conn = [pc |-> "connected", n |-> 1, protocolVersion |-> {2}, payload |-> {<<2, 0>>}]
    /\ devInbox = <<>>
    /\ usbIn = <<>>
    /\ stream = NoStream
    /\ codec = NoCodec
    /\ resync = NoResync
    /\ xfer = NoXfer
    /\ link = NoLink
    /\ nvs = NoNvs
    /\ \E api \in WriteApis, total \in DataLengths :
           loop = [NoLoop EXCEPT !.api = api, !.pc = "loop", !.total = total,
                                 !.remaining = total]

\* one round of a write loop: a part of the data is sent, the response
\* reports written bytes; zero throws, otherwise position and data advance
WriteChunk(written) ==
    /\ loop.api \in WriteApis
    /\ loop.pc = "loop"
    /\ loop.remaining > 0
    /\ Len(loop.chunks) < MaxChunks
    /\ LET part == IF loop.remaining < SliceEnd(loop.api) THEN loop.remaining
                   ELSE SliceEnd(loop.api)
       IN  loop' = IF written < 1
                   THEN [loop EXCEPT !.chunks = Append(@, part),
                                     !.accepted = Append(@, written),
                                     !.pc = "failed"]
                   ELSE [loop EXCEPT !.chunks = Append(@, part),
                                     !.accepted = Append(@, written),
                                     !.position = @ + written,
                                     !.remaining = IF written < @ THEN @ - written ELSE 0]
    /\ UNCHANGED badge

\* the loop test finds no data left: the loop leaves for closeFile
WriteDone ==
    /\ loop.api \in WriteApis
    /\ loop.pc = "loop"
    /\ loop.remaining = 0
    /\ loop' = [loop EXCEPT !.pc = "close"]
    /\ UNCHANGED badge

\* `return (position == total)'
writeResult(l) == l.position = l.total

NextWrite == WriteDone \/ \E written \in WrittenCounts : WriteChunk(written)

SpecWrite == InitWrite /\ [][NextWrite]_vars

(***************************************************************************)
(* Specifications                                                          *)
(***************************************************************************)
\* a new BadgeUSB, listening, as connect() has it at line 125
InitConnect ==
    /\ transactionQueue = NewQueue
    /\ inSync = FALSE
    /\ connected = FALSE
    /\ nextTransactionID = 0
    /\ transactions = {}
    /\ promise = <<>>
    /\ dataBuffer = <<>>
    /\ task = [c \in Tasks |-> NewTask]
    /\ runnable = {}
    /\ conn = [pc |-> "loop", n |-> 0, protocolVersion |-> {}, payload |-> {}]
    /\ devInbox = <<>>
    /\ usbIn = <<>>
    /\ stream = NoStream
    /\ codec = NoCodec
    /\ InitApi

\* the session as connect() returns it when the first SYNC was answered at
\* once with protocol version 2
Init ==
    /\ transactionQueue = [NewQueue EXCEPT !.nextToken = 1]
    /\ inSync = TRUE
    /\ connected = TRUE
    /\ nextTransactionID = 1
    /\ transactions = {}
    /\ promise = <<>>
    /\ dataBuffer = <<>>
    /\ task = [c \in Tasks |-> NewTask]
    /\ runnable = {}
    /\ conn = [pc |-> "connected", n |-> 1, protocolVersion |-> {2}, payload |-> {<<2, 0>>}]
    /\ devInbox = <<>>
    /\ usbIn = <<>>
    /\ stream = NoStream
    /\ codec = NoCodec
    /\ InitApi

Machinery(menu) ==
    \/ \E c \in Slots : Admit(c) \/ SendDone(c) \/ Finish(c)
    \/ Listen
    \/ \E id \in DOMAIN promise : TimerFire(id)
    \/ QueueTimerFire
    \/ Tick
    \/ \E i \in 1..Len(devInbox), resp \in menu : DeviceRespond(i, resp)

Next ==
    \/ \E c \in 1..MaxTx, timeout \in Timeouts : Call(c, timeout)
    \/ Machinery(Responses)

\* one more call, and a device that never answers
NextQueue ==
    \/ \E c \in Calls, timeout \in Timeouts : Call(c, timeout)
    \/ \E c \in Calls : Admit(c) \/ SendDone(c) \/ Finish(c)
    \/ \E id \in DOMAIN promise : TimerFire(id)
    \/ QueueTimerFire
    \/ Tick

SpecQueue == Init /\ [][NextQueue]_vars

\* the same with timers that fire when they are due, time that passes, and
\* an event loop that runs the continuations and completes the transfers
SpecQueueFair ==
    /\ SpecQueue
    /\ WF_vars(Tick)
    /\ WF_vars(QueueTimerFire)
    /\ WF_vars(\E id \in DOMAIN promise : TimerFire(id))
    /\ WF_vars(\E c \in Calls : Admit(c) \/ SendDone(c) \/ Finish(c))

Spec == Init /\ [][Next]_vars

\* the numbers of transactions a session has issued before: so many that
\* the next ids are the last ones below 2^31
IssuedBefore == {2147483646, 2147483647}

\* the session of Init later in its life: all its transactions are over and
\* nextTransactionID has been advanced by line 299 once for each of them
InitWrap ==
    /\ transactionQueue = [NewQueue EXCEPT !.nextToken = 1]
    /\ inSync = TRUE
    /\ connected = TRUE
    /\ nextTransactionID \in IssuedBefore
    /\ transactions = {}
    /\ promise = <<>>
    /\ dataBuffer = <<>>
    /\ task = [c \in Tasks |-> NewTask]
    /\ runnable = {}
    /\ conn = [pc |-> "connected", n |-> 1, protocolVersion |-> {2}, payload |-> {<<2, 0>>}]
    /\ devInbox = <<>>
    /\ usbIn = <<>>
    /\ stream = NoStream
    /\ codec = NoCodec
    /\ InitApi

SpecWrap == InitWrap /\ [][Next]_vars

\* a session that is torn down: by disconnect(), or by a transferIn of the
\* receive task that throws
NextTeardown ==
    \/ \E c \in 1..MaxTx, timeout \in Timeouts : Call(c, timeout)
    \/ Machinery(ChainResponses)
    \/ ListenFails \/ ListenBreaks
    \/ Disconnect \/ DisconnectClose

SpecTeardown == Init /\ [][NextTeardown]_vars

NextChain ==
    \/ \E c \in 1..MaxTx : Call(c, 0) \/ ChainCall(c, 4000)
    \/ ChainWaitTurn \/ ChainGranted \/ ChainRelease
    \/ \E c \in Calls : SendFail(c)
    \/ Machinery(ChainResponses)

SpecChain == Init /\ [][NextChain]_vars

\* every call goes through BadgeAPI.transaction: calls without a token, and
\* the calls of a chained transfer
\* a caller that keeps a token over the expiry of the queue and presents it
\* later, beside callers without a token; the device never answers
NextStale ==
    \/ \E c \in Calls : Call(c, 0) \/ ChainCall(c, 4000)
    \/ ChainWaitTurn \/ ChainGranted
    \/ \E c \in Calls : Admit(c) \/ SendDone(c) \/ Finish(c)
    \/ \E id \in DOMAIN promise : TimerFire(id)
    \/ QueueTimerFire
    \/ Tick

SpecStale == Init /\ [][NextStale]_vars

NextApi ==
    \/ \E c \in 1..MaxTx, timeout \in Timeouts : ApiCall(c, timeout)
    \/ \E c \in 1..MaxTx : ApiChainCall(c, 4000)
    \/ ChainWaitTurn \/ ChainGranted \/ ChainRelease
    \/ \E c \in Callers : Resync(c, MaxResync)
    \/ Machinery(ChainResponses)

SpecApi == Init /\ [][NextApi]_vars

\* calls through BadgeAPI.transaction to a device whose answers arrive in
\* one transfer or in two
NextParts ==
    \/ \E c \in 1..MaxTx : ApiCall(c, 4000)
    \/ \E c \in Callers : Resync(c, MaxResync)
    \/ Machinery(ChainResponses)
    \/ \E i \in 1..Len(devInbox), resp \in ChainResponses, k \in SplitOffsets :
           DeviceRespondInParts(i, resp, k)

SpecParts == Init /\ [][NextParts]_vars

\* calls through BadgeAPI.transaction to a device that never answers, with
\* the syncIfNeeded loop followed one SYNC transaction beyond the number
\* that connect() allows itself
NextResync ==
    \/ \E c \in 1..MaxTx : ApiCall(c, 4000)
    \/ \E c \in Callers : Resync(c, MaxSyncTries + 1)
    \/ \E c \in Slots : Admit(c) \/ SendDone(c) \/ Finish(c)
    \/ \E id \in DOMAIN promise : TimerFire(id)
    \/ QueueTimerFire
    \/ Tick

SpecResync == Init /\ [][NextResync]_vars

\* what the device may answer to the transactions of a file transfer: one
\* byte 1 (opened, a last chunk, closed) or an error code
FileResponses == {Response(FALSE, <<1>>, FALSE), Response(TRUE, <<>>, FALSE)}

\* a readFile, whose transactions go through BadgeAPI.transaction; the
\* other callers of transaction() are the sync() calls of syncIfNeeded
NextFile ==
    \/ ReadFile \/ FileGranted \/ FileOpened \/ FileChunk \/ FileClosed
    \/ \E c \in Callers : Resync(c, MaxResync)
    \/ Machinery(FileResponses)

SpecFile == Init /\ [][NextFile]_vars

NextConnect == ConnectSync \/ ConnectSyncDone \/ Machinery(SyncResponses)

SpecConnect == InitConnect /\ [][NextConnect]_vars

(***************************************************************************)
(* The NVS type names: nvsTypeToString and nvsTypeStringToNumber           *)
(***************************************************************************)
\* enum NVSType, lines 5-16
NVSType == [Uint8 |-> 1, Int8 |-> 17, Uint16 |-> 2, Int16 |-> 18, Uint32 |-> 4,
            Int32 |-> 20, Uint64 |-> 8, Int64 |-> 24, String |-> 33, Blob |-> 66]

\* nvsTypeStringToNumber(type), lines 245-259: the NVSType of a name, or
\* nothing where it throws "Invalid configuration type"
nvsTypeStringToNumber(type) ==
    CASE type = "u8"     -> {NVSType.Uint8}
      [] type = "i8"     -> {NVSType.Int8}
      [] type = "u16"    -> {NVSType.Uint16}
      [] type = "i16"    -> {NVSType.Int16}
      [] type = "u32"    -> {NVSType.Uint32}
      [] type = "i32"    -> {NVSType.Int32}
      [] type = "u64"    -> {NVSType.Uint64}
      [] type = "i64"    -> {NVSType.Int64}
      [] type = "string" -> {NVSType.String}
      [] type = "blob"   -> {NVSType.Blob}
      [] OTHER           -> {}

\* nvsTypeToString(type), lines 261-275: the name of an NVSType, or nothing
\* where it throws
nvsTypeToString(type) ==
    CASE type = NVSType.Uint8  -> {"u8"}
      [] type = NVSType.Int8   -> {"i8"}
      [] type = NVSType.Uint16 -> {"u16"}
      [] type = NVSType.Int16  -> {"i16"}
      [] type = NVSType.Uint32 -> {"u32"}
      [] type = NVSType.Int32  -> {"i32"}
      [] type = NVSType.Uint64 -> {"64"}
      [] type = NVSType.Int64  -> {"i64"}
      [] type = NVSType.String -> {"string"}
      [] type = NVSType.Blob   -> {"blob"}
      [] OTHER                 -> {}

\* the names handed to nvsTypeStringToNumber: the ten of its cases, and two
\* it has no case for
TypeNames == {"u8", "i8", "u16", "i16", "u32", "i32", "u64", "i64", "string", "blob",
              "64", "float"}

\* a new BadgeUSB, an NVSType and a type name
InitNvs ==
    /\ transactionQueue = NewQueue
    /\ inSync = FALSE
    /\ connected = FALSE
    /\ nextTransactionID = 0
    /\ transactions = {}
    /\ promise = <<>>
    /\ dataBuffer = <<>>
    /\ task = [c \in Tasks |-> NewTask]
    /\ runnable = {}
    /\ conn = [pc |-> "loop", n |-> 0, protocolVersion |-> {}, payload |-> {}]
    /\ devInbox = <<>>
    /\ usbIn = <<>>
    /\ stream = NoStream
    /\ codec = NoCodec
    /\ resync = NoResync
    /\ xfer = NoXfer
    /\ loop = NoLoop
    /\ link = NoLink
    /\ \E k \in DOMAIN NVSType, name \in TypeNames :
           nvs = [NoNvs EXCEPT !.type = NVSType[k], !.name = name, !.pc = "new"]

\* all variables but nvs
allButNvs == <<transactionQueue, inSync, connected, nextTransactionID, transactions,
               promise, dataBuffer, task, runnable, conn, devInbox, usbIn, stream, codec,
               resync, xfer, loop, link>>

\* nvsTypeToString is applied: to the NVSType, or to the NVSType that
\* nvsTypeStringToNumber returned for the name
NvsTypeToString ==
    /\ nvs.pc \in {"new", "numbered"}
    /\ nvs.pc = "numbered" => nvs.number # {}
    /\ LET type == IF nvs.pc = "new" THEN nvs.type ELSE The(nvs.number)
       IN  nvs' = [nvs EXCEPT !.text = nvsTypeToString(type),
                              !.pc = IF nvs.pc = "new" THEN "named" ELSE "nameBack"]
    /\ UNCHANGED allButNvs

\* nvsTypeStringToNumber is applied: to the name, or to the name that
\* nvsTypeToString returned for the NVSType
NvsStringToNumber ==
    /\ nvs.pc \in {"new", "named"}
    /\ nvs.pc = "named" => nvs.text # {}
    /\ LET name == IF nvs.pc = "new" THEN nvs.name ELSE The(nvs.text)
       IN  nvs' = [nvs EXCEPT !.number = nvsTypeStringToNumber(name),
                              !.pc = IF nvs.pc = "new" THEN "numbered" ELSE "typeBack"]
    /\ UNCHANGED allButNvs

SpecNvs == InitNvs /\ [][NvsTypeToString \/ NvsStringToNumber]_vars

(***************************************************************************)
(* The frame codec alone: one frame through _sendPacket and _handlePacket  *)
(***************************************************************************)
\* ids that transaction() passes to _sendPacket: small ones, ones that fill
\* more than one byte, the largest positive one and the one NextID yields
\* after it
CodecIds == {0, 1, 255, 256, 65536, 2147483647, NextID(2147483647)}
CodecCommands == {PROTOCOL_COMMAND_SYNC, PROTOCOL_COMMAND_APP_LIST, ERR5}
CodecPayloads == {<<>>, <<0>>, <<2, 0>>, <<254, 237, 240, 13, 255>>}

\* a new BadgeUSB and a frame to send
InitCodec ==
    /\ transactionQueue = NewQueue
    /\ inSync = FALSE
    /\ connected = FALSE
    /\ nextTransactionID = 0
    /\ transactions = {}
    /\ promise = <<>>
    /\ dataBuffer = <<>>
    /\ task = [c \in Tasks |-> NewTask]
    /\ runnable = {}
    /\ conn = [pc |-> "loop", n |-> 0, protocolVersion |-> {}, payload |-> {}]
    /\ devInbox = <<>>
    /\ usbIn = <<>>
    /\ stream = NoStream
    /\ \E id \in CodecIds, command \in CodecCommands, payload \in CodecPayloads :
           codec = [NoCodec EXCEPT !.id = id, !.command = command, !.payload = payload]
    /\ InitApi

\* all variables but codec
session == <<transactionQueue, inSync, connected, nextTransactionID, transactions,
             promise, dataBuffer, task, runnable, conn, devInbox, usbIn, stream, apiVars>>

\* _sendPacket(id, command, payload): the frame is written to the transport
SendPacket ==
    /\ codec.sent = <<>>
    /\ codec' = [codec EXCEPT !.sent = Packet(codec.id, codec.command, codec.payload)]
    /\ UNCHANGED session

\* _handlePacket(buffer), lines 521-540, on the frame that was sent
HandlePacket ==
    /\ codec.sent # <<>>
    /\ codec.decoded = {}
    /\ codec' = [codec EXCEPT !.decoded = {ParsePacket(codec.sent)}]
    /\ UNCHANGED session

NextCodec == SendPacket \/ HandlePacket

SpecCodec == InitCodec /\ [][NextCodec]_vars

(***************************************************************************)
(* The stream reassembler alone: a byte stream fed to _handleData in       *)
(* chunks of any sizes                                                     *)
(***************************************************************************)
MaxSegments == 2       \* segments a byte stream is made of

\* ESC [ 0 ; 3 1 m E SPACE x ESC [ 0 m CR LF CR: a firmware diagnostic
FirmwareError == <<27, 91, 48, 59, 51, 49, 109, 69, 32, 120, 27, 91, 48, 109, 13, 10, 13>>

\* what the device may send: frames with and without payload, a payload
\* that holds the frame magic, the first 21 bytes of a frame, noise that
\* ends like the start of the magic, 20 bytes of noise, a diagnostic
Segments ==
    {DeviceFrame(U32(1), PROTOCOL_COMMAND_APP_LIST, <<2, 0>>, FALSE),
     DeviceFrame(U32(2), PROTOCOL_COMMAND_SYNC, <<>>, FALSE),
     DeviceFrame(U32(3), ERR5, setUint32LE(PROTOCOL_MAGIC), TRUE),
     Slice(DeviceFrame(U32(4), PROTOCOL_COMMAND_APP_LIST, <<2, 0>>, FALSE), 0, 21),
     <<65, 13, 240>>,
     [i \in 1..HeaderLength |-> 65],
     FirmwareError}

RECURSIVE StreamsOf(_)
StreamsOf(n) ==
    IF n = 0 THEN {<<>>}
    ELSE StreamsOf(n - 1) \cup {a \o b : a \in StreamsOf(n - 1), b \in Segments}

InitReasm ==
    /\ transactionQueue = NewQueue
    /\ inSync = FALSE
    /\ connected = FALSE
    /\ nextTransactionID = 0
    /\ transactions = {}
    /\ promise = <<>>
    /\ dataBuffer = <<>>
    /\ task = [c \in Tasks |-> NewTask]
    /\ runnable = {}
    /\ conn = [pc |-> "loop", n |-> 0, protocolVersion |-> {}, payload |-> {}]
    /\ devInbox = <<>>
    /\ usbIn = <<>>
    /\ codec = NoCodec
    /\ InitApi
    /\ \E whole \in StreamsOf(MaxSegments) :
           stream = [todo |-> whole, whole |-> whole, frames |-> <<>>]

\* _handleData(buffer) with the next n bytes of the stream; the frames it
\* passes to _handlePacket are recorded (no transaction is registered)
HandleData(n) ==
    /\ LET r == handleData(dataBuffer, Slice(stream.todo, 0, n))
       IN  /\ dataBuffer' = r.buffer
           /\ stream' = [stream EXCEPT !.todo = SliceFrom(@, n),
                                       !.frames = @ \o r.frames]
    /\ UNCHANGED <<transactionQueue, inSync, connected, nextTransactionID, transactions,
                   promise, task, runnable, conn, devInbox, usbIn, codec, apiVars>>

NextReasm == \E n \in 1..Len(stream.todo) : HandleData(n)

SpecReasm == InitReasm /\ [][NextReasm]_vars

\* the same, fed with bytes that are not a frame followed by one complete
\* frame: noise, noise of the length of a header, a diagnostic, the first
\* bytes of a diagnostic (its end marker has not arrived)
Prefixes ==
    {<<65, 13, 240>>, [i \in 1..HeaderLength |-> 65], FirmwareError,
     Slice(FirmwareError, 0, 10)}

CompleteFrames ==
    {DeviceFrame(U32(1), PROTOCOL_COMMAND_APP_LIST, <<2, 0>>, FALSE),
     DeviceFrame(U32(2), PROTOCOL_COMMAND_SYNC, <<>>, FALSE),
     DeviceFrame(U32(3), ERR5, setUint32LE(PROTOCOL_MAGIC), TRUE)}

InitPrefix ==
    /\ transactionQueue = NewQueue
    /\ inSync = FALSE
    /\ connected = FALSE
    /\ nextTransactionID = 0
    /\ transactions = {}
    /\ promise = <<>>
    /\ dataBuffer = <<>>
    /\ task = [c \in Tasks |-> NewTask]
    /\ runnable = {}
    /\ conn = [pc |-> "loop", n |-> 0, protocolVersion |-> {}, payload |-> {}]
    /\ devInbox = <<>>
    /\ usbIn = <<>>
    /\ codec = NoCodec
    /\ InitApi
    /\ \E prefix \in Prefixes, frame \in CompleteFrames :
           stream = [todo |-> prefix \o frame, whole |-> prefix \o frame, frames |-> <<>>,
                     prefix |-> prefix, frame |-> frame]

SpecPrefix == InitPrefix /\ [][NextReasm]_vars

(***************************************************************************)
(* Properties                                                              *)
(***************************************************************************)
\* call c is admitted (registered, its frame sent) and has not resolved
Awaiting(c) ==
    /\ task[c].pc \in {"sendPacket", "awaitResponse"}
    /\ promise[The(task[c].id)].state = "pending"

\* call c is suspended in Queue.waitTurn
Blocked(c) == task[c].pc = "waitTurn" /\ task[c].token = {}

\* the frame has a non-empty payload whose CRC-32 is not its payload_crc field
Corrupt(frame) ==
    LET payload == SliceFrom(frame, HeaderLength)
    IN  Len(payload) > 0 /\ crc32FromArrayBuffer(payload) # getUint32(frame, 16, TRUE)

\* this step is _listen reading a frame that carries the id of call c,
\* which is registered
Receives(c) ==
    /\ usbIn # <<>>
    /\ usbIn' = Tail(usbIn)
    /\ task[c].pc \in {"sendPacket", "awaitResponse"}
    /\ The(task[c].id) \in transactions
    /\ U32(The(task[c].id)) = getUint32(Head(usbIn), 4, TRUE)

\* this step is call c returning or throwing
Returns(c) == task[c].pc = "awaitResponse" /\ task'[c].pc = "done"

\* C1: of the calls of transaction() made without a queue token, at most one
\* is admitted and not yet resolved, whatever their timeouts are
C1_OneTokenlessAwaiting ==
    Cardinality({c \in Calls : task[c].queueToken = {} /\ Awaiting(c)}) <= 1

\* C2: of two calls blocked in waitTurn, the one that called waitTurn later
\* (the calls are numbered in the order of their waitTurn) is never granted
\* the queue while the earlier one is still blocked
C2_FIFO ==
    [][\A c, d \in Calls :
          (c < d /\ Blocked(c) /\ Blocked(d)) => ~(Blocked(c)' /\ ~Blocked(d)')]_vars

C2_TwoBlocked ==
    /\ Blocked(2) /\ Blocked(3)
    /\ transactionQueue.queue[1].resolve = 2
    /\ Awaiting(1)

\* C3: when the timeout timer of a pending transaction fires, the
\* transaction is rejected with the timeout error, its registry entry is
\* removed and inSync is false in the state after the callback; the call
\* then throws a TimeoutError
C3_Timeout ==
    [][/\ \A id \in DOMAIN promise :
            (/\ promise[id].timer = "armed"
             /\ promise[id].state = "pending"
             /\ id \in DOMAIN promise'
             /\ promise'[id].timer = "fired")
            => /\ promise'[id].state = "rejected"
               /\ promise'[id].error = "timeout"
               /\ id \notin transactions'
               /\ inSync' = FALSE
       /\ \A c \in Calls :
            (Returns(c) /\ promise[The(task[c].id)].error = "timeout")
            => task'[c].result = "TimeoutError"]_vars

C3_TimedOut ==
    \E c \in Calls :
        /\ task[c].pc = "awaitResponse"
        /\ promise[The(task[c].id)].timer = "fired"
        /\ promise[The(task[c].id)].error = "timeout"
        /\ The(task[c].id) \notin transactions
        /\ ~inSync

C5_UnmatchedDiscarded ==
    [][(/\ usbIn # <<>>
        /\ usbIn' = Tail(usbIn)
        /\ ~\E k \in transactions : U32(k) = getUint32(Head(usbIn), 4, TRUE))
       => UNCHANGED <<transactions, promise, inSync, transactionQueue, task, runnable>>]_vars

\* the first call timed out, and the device answered it: the response was
\* read after the timeout, with no other call made
C5_LateResponseRead ==
    /\ task[1].result = "TimeoutError"
    /\ task[2].pc = "new"
    /\ devInbox = <<>>
    /\ usbIn = <<>>

\* C6: a frame with a non-empty payload that fails the CRC check rejects the
\* registered transaction it is addressed to, whatever its type code is, and
\* a call whose transaction was rejected throws
C6_CrcNeverSuccess ==
    [][\A c \in Calls :
          /\ (Receives(c) /\ Corrupt(Head(usbIn)))
             => /\ promise'[The(task[c].id)].state = "rejected"
                /\ promise'[The(task[c].id)].error = "crc"
          /\ (Returns(c) /\ promise[The(task[c].id)].state = "rejected")
             => task'[c].result \in {"RXError", "TimeoutError"}]_vars

C6_CrcErrorThrown ==
    \E c \in Calls : task[c].pc = "done" /\ task[c].result = "RXError"

\* C7: a frame that fails the CRC check is removed from the buffer and its
\* transaction from the registry, with inSync unchanged; the call that
\* throws for it gives up its token, with inSync unchanged; and once a call
\* has thrown for a CRC failure, an intact response with the command of a
\* registered transaction still resolves it, and its call returns the payload
C7_UsableAfterCrc ==
    [][\A c \in Calls :
          /\ (Receives(c) /\ Corrupt(Head(usbIn)))
             => /\ dataBuffer' = <<>>
                /\ The(task[c].id) \notin transactions'
                /\ inSync' = inSync
          /\ (Returns(c) /\ promise[The(task[c].id)].error = "crc")
             => /\ task[c].token # transactionQueue'.current
                /\ inSync' = inSync
          /\ (/\ \E b \in Calls : task[b].result = "RXError"
              /\ Receives(c)
              /\ ~Corrupt(Head(usbIn))
              /\ getUint32(Head(usbIn), 8, TRUE) = task[c].command)
             => /\ promise'[The(task[c].id)].state = "resolved"
                /\ (The(promise'[The(task[c].id)].response)).payload
                     = SliceFrom(Head(usbIn), HeaderLength)
          /\ (/\ \E b \in Calls : task[b].result = "RXError"
              /\ Returns(c)
              /\ promise[The(task[c].id)].state = "resolved"
              /\ (The(promise[The(task[c].id)].response)).type = task[c].command)
             => task'[c].result = "success"]_vars

C7_SuccessAfterCrc ==
    \E b, c \in Calls : b < c /\ task[b].result = "RXError" /\ task[c].result = "success"

\* the JavaScript number id is the number that getUint32 reads as the Word w
SameNumber(id, w) == id >= 0 /\ U32(id) = w

\* C8: the header parsing of _handlePacket reads from the frame written by
\* _sendPacket the same id, the same type code and the same payload, and the
\* CRC check passes
C8_RoundTrip ==
    codec.decoded # {} =>
        LET d == The(codec.decoded)
        IN  /\ SameNumber(codec.id, d.id)
            /\ d.type = codec.command
            /\ d.payload = codec.payload
            /\ ~d.crcMismatch

\* C9: when a byte stream has been passed to _handleData in chunks, the
\* frames handed to _handlePacket and the buffer left are those of a single
\* _handleData call with the whole stream
C9_FragmentationInvariant ==
    stream.todo = <<>> =>
        LET whole == handleData(<<>>, stream.whole)
        IN  /\ stream.frames = whole.frames
            /\ dataBuffer = whole.buffer

\* a stream was consumed that holds bytes which were skipped, a frame which
\* was dispatched and bytes which stay in the buffer
C9_FedInChunks ==
    /\ stream.todo = <<>>
    /\ stream.frames # <<>>
    /\ dataBuffer # <<>>
    /\ Len(stream.whole) > Len(dataBuffer) + Len(stream.frames[1])

\* the sync phase of connect() is over: connected, version rejected, or sync failed
SyncPhaseOver == conn.pc \in {"connected", "unsupported", "syncFailed"}

\* connect() can go on, or it waits for something that is bound to happen:
\* the completion of a transfer, or a timer that is armed
SyncPhaseGoesOn ==
    \/ conn.pc = "loop"
    \/ task[1].pc = "done"
    \/ 1 \in runnable
    \/ task[1].pc = "sendPacket"
    \/ task[1].pc = "awaitResponse" /\ promise[The(task[1].id)].timer = "armed"

\* C10: the sync phase of connect() ends: while it is not over, connect()
\* never waits for the device alone, and it never starts more than 100 SYNC
\* transactions; it ends with the sync error only after exactly 100 of them,
\* none of which returned a version; a SYNC transaction that returns a
\* version of 2 or more ends it with success
C10_SyncTerminates ==
    /\ [](/\ ~SyncPhaseOver => SyncPhaseGoesOn
          /\ nextTransactionID <= MaxSyncTries
          /\ conn.pc = "syncFailed"
             => nextTransactionID = MaxSyncTries /\ conn.protocolVersion = {}
          /\ conn.pc = "connected"
             => connected /\ getUint16LE(The(conn.payload)) >= MinProtocolVersion)
    /\ [][(/\ conn.pc = "sync"
           /\ task[1].pc = "done"
           /\ task[1].result = "success"
           /\ Len(The(conn.payload)) >= 2
           /\ getUint16LE(The(conn.payload)) >= MinProtocolVersion
           /\ conn'.pc # "sync")
          => conn'.pc = "connected" /\ connected']_vars

C10_SyncFailed == conn.pc = "syncFailed" /\ nextTransactionID = MaxSyncTries

\* C11: a call of BadgeAPI.transaction made while inSync is false (it
\* started a syncIfNeeded loop) has its frame written to the transport only
\* in a state where inSync is true
C11_NoFrameWhileUnsynced ==
    [][\A c \in Calls :
          (/\ resync[c].pc # "none"
           /\ task[c].pc = "waitTurn"
           /\ task'[c].pc = "sendPacket")
          => inSync]_vars

\* C12: a syncIfNeeded loop starts at most as many SYNC transactions as the
\* sync loop of connect() does (100); after that it has ended
C12_ResyncBounded == \A c \in Callers : resync[c].tries <= MaxSyncTries

\* C13: connected is true only in a session that connect() returned, after a
\* SYNC transaction returned a payload whose version is 2 or more; when a
\* SYNC transaction returns a version below 2, connect() throws, and the
\* session stays rejected with connected false
C13_VersionGate ==
    /\ [](/\ connected
             => /\ conn.pc = "connected"
                /\ conn.protocolVersion = {getUint16LE(The(conn.payload))}
                /\ The(conn.protocolVersion) >= 2
          /\ conn.pc = "connected" => connected
          /\ conn.pc = "unsupported" => ~connected /\ The(conn.protocolVersion) < 2)
    /\ [][/\ (/\ conn.pc = "sync"
              /\ conn'.pc # "sync"
              /\ task[1].result = "success"
              /\ Len(The(conn.payload)) >= 2
              /\ getUint16LE(The(conn.payload)) < 2)
             => conn'.pc = "unsupported" /\ ~connected'
          /\ conn.pc = "unsupported" => conn'.pc = "unsupported" /\ ~connected']_vars

C13_VersionRejected ==
    /\ conn.pc = "unsupported"
    /\ conn.protocolVersion = {1}
    /\ ~connected
    /\ inSync

\* C14: a call of transaction() that returns or throws after the queue
\* granted it a token of its own (it was not admitted under the token its
\* caller passed) has released that token: the token is not the current one
\* after the step
C14_GrantedTokenReleased ==
    [][\A c \in Slots :
          (Returns(c) /\ task[c].token # task[c].queueToken)
          => task[c].token # transactionQueue'.current]_vars

\* C15: while the queue is occupied its expiry timer is armed for the
\* current token, with at most the turn timeout left; when the timer fires
\* the token it carries is no longer current, and the first waiter, if
\* any, is granted the queue; with fair timers a call blocked in waitTurn
\* is eventually granted a token, though the device never answers and a
\* call without timeout never releases
C15_ForceRelease ==
    /\ [](transactionQueue.current # {}
          => /\ transactionQueue.timeoutHandle # {}
             /\ (The(transactionQueue.timeoutHandle)).token = transactionQueue.current
             /\ (The(transactionQueue.timeoutHandle)).left <= defaultTimeout)
    /\ [][(/\ transactionQueue.timeoutHandle # {}
           /\ (The(transactionQueue.timeoutHandle)).left = 0
           /\ transactionQueue' # transactionQueue
           /\ nextTransactionID' = nextTransactionID
           /\ \A c \in Slots : task'[c].pc = task[c].pc)
          => /\ transactionQueue'.current # transactionQueue.current
             /\ transactionQueue.queue # <<>>
                => /\ task'[transactionQueue.queue[1].resolve].token
                        = {transactionQueue.nextToken}
                   /\ transactionQueue'.current = {transactionQueue.nextToken}]_vars
    /\ \A c \in Calls : Blocked(c) ~> ~Blocked(c)

C15_GrantedByExpiry ==
    /\ Awaiting(1)
    /\ task[1].timeout = 0
    /\ task[2].pc = "waitTurn"
    /\ task[2].token = transactionQueue.current
    /\ Blocked(3)

\* the file transfer is between the start of its first and the end of its
\* last transaction, and its token is the current one
Holding ==
    /\ xfer.pc \in {"open", "chunk", "close"}
    /\ task[Chain].held = transactionQueue.current

\* C16: while a file transfer holds the current token, each transaction it
\* starts with the token is granted the queue at once under that token; no
\* call of another caller, the SYNC transactions of syncIfNeeded included,
\* goes from waitTurn to _sendPacket; and the token stays the current one
\* until the transfer releases it or the expiry timer of the queue is due
C16_ChainExclusive ==
    [][/\ (/\ task'[FileCall].pc = "waitTurn"
           /\ task[FileCall].pc # "waitTurn"
           /\ task'[Chain].held = transactionQueue.current)
          => /\ task'[FileCall].token = task'[Chain].held
             /\ transactionQueue'.current = transactionQueue.current
       /\ Holding
          => /\ \A c \in Slots \ {FileCall} :
                    ~(task[c].pc = "waitTurn" /\ task'[c].pc = "sendPacket")
             /\ transactionQueue'.current # transactionQueue.current
                => \/ xfer'.pc \in {"returned", "threw"}
                   \/ (The(transactionQueue.timeoutHandle)).left = 0]_vars

C16_SyncQueuedBehindTransfer ==
    /\ Holding
    /\ xfer.pc = "close"
    /\ task[FileCall].pc = "awaitResponse"
    /\ Blocked(SyncOf(FileCall))

\* C17: a read loop has left for closeFile exactly when the last chunk it
\* received was shorter than the chunk size it declares: every chunk before
\* the last has the declared size, and the loop goes on after a chunk of
\* the declared size
C17_StopsOnShortChunk ==
    loop.api \in ReadApis =>
        /\ \A i \in 1..Len(loop.chunks) :
               loop.chunks[i] < DeclaredSize(loop.api)
               => i = Len(loop.chunks) /\ loop.pc = "close"
        /\ loop.pc = "close" => loop.chunks[Len(loop.chunks)] < DeclaredSize(loop.api)

RECURSIVE SumSeq(_)
SumSeq(q) == IF q = <<>> THEN 0 ELSE Head(q) + SumSeq(Tail(q))

\* C18: a write loop sends at most 512 bytes in a chunk transaction; its
\* cursor is the sum of the accepted counts of the responses; it has failed
\* exactly when a response reported zero accepted bytes; it leaves for
\* closeFile only when no bytes remain; and it then reports success exactly
\* when the accepted counts sum up to the length of the data
C18_WriteLoop ==
    loop.api \in WriteApis =>
        /\ \A i \in 1..Len(loop.chunks) : loop.chunks[i] <= 512
        /\ loop.position = SumSeq(loop.accepted)
        /\ loop.remaining = IF loop.position < loop.total THEN loop.total - loop.position
                            ELSE 0
        /\ loop.pc = "failed" <=> \E i \in 1..Len(loop.accepted) : loop.accepted[i] = 0
        /\ loop.pc = "close"
           => /\ loop.remaining = 0
              /\ writeResult(loop) <=> SumSeq(loop.accepted) = loop.total

\* C19: a file transfer ends only out of its close transaction, and once it
\* has ended, with a result or with an error, also an error of the close
\* transaction, its token is no longer the current one
C19_CloseThenRelease ==
    /\ [][(xfer.pc \in {"open", "chunk", "close"} /\ xfer'.pc \in {"returned", "threw"})
          => /\ xfer.pc = "close"
             /\ task[FileCall].command = PROTOCOL_COMMAND_FILESYSTEM_FILE_CLOSE
             /\ task[FileCall].pc = "done"]_vars
    /\ [](xfer.pc \in {"returned", "threw"}
          => task[Chain].held # transactionQueue.current)

\* C20: a frame that carries the id of a registered transaction resolves it
\* exactly when it passes the CRC check; the call returns a payload exactly
\* when its transaction was resolved with a response whose type is the
\* command sent, and the payload is that of the response; a call whose
\* transaction was resolved with a response of another type throws a
\* BadgeUSBError that carries that type code; a call whose transaction was
\* rejected returns nothing
C20_PayloadIffTypeMatches ==
    [][\A c \in Calls :
          /\ Receives(c)
             => /\ (promise'[The(task[c].id)].state = "resolved") = ~Corrupt(Head(usbIn))
                /\ ~Corrupt(Head(usbIn))
                   => promise'[The(task[c].id)].response =
                         {[type |-> getUint32(Head(usbIn), 8, TRUE),
                           payload |-> SliceFrom(Head(usbIn), HeaderLength)]}
          /\ Returns(c)
             => LET pr == promise[The(task[c].id)]
                    matches == /\ pr.state = "resolved"
                               /\ (The(pr.response)).type = task[c].command
                IN  /\ (task'[c].result = "success") = matches
                    /\ (task'[c].returned # {}) = matches
                    /\ matches => task'[c].returned = {(The(pr.response)).payload}
                    /\ (pr.state = "resolved" /\ ~matches)
                       => /\ task'[c].result = "BadgeUSBError"
                          /\ task'[c].code = {(The(pr.response)).type}
                          /\ task'[c].code # {task[c].command}
                    /\ pr.state = "rejected" => task'[c].code = {}]_vars

C20_DeviceErrorThrown ==
    \E c \in Calls : /\ task[c].pc = "done"
                     /\ task[c].result = "BadgeUSBError"
                     /\ task[c].code = {ERR5}
                     /\ task[c].returned = {}
\* C21: every id that transaction() assigns is a number from 0 to 2^32 - 1,
\* so is the next one, and the id under which a transaction is registered is
\* the number that _handlePacket reads from the header of a frame with that id
C21_IdsUnsigned ==
    /\ nextTransactionID >= 0
    /\ \A c \in Slots : task[c].id # {} => The(task[c].id) >= 0
    /\ \A k \in transactions :
          SameNumber(k, getUint32(Packet(k, PROTOCOL_COMMAND_SYNC, <<>>), 4, TRUE))
\* this step is the callback of the timeout timer of some transaction
TimesOut ==
    /\ usbIn' = usbIn
    /\ task' = task
    /\ \E id \in DOMAIN promise :
          /\ promise[id].timer = "armed"
          /\ promise[id].left = 0
          /\ id \in DOMAIN promise' => promise'[id].timer # "armed"

\* the SYNC transaction that the sync() of caller c awaits has got its
\* response, and sync() has not resumed yet
SyncSucceeded(c) ==
    /\ resync[c].pc = "sync"
    /\ \/ task[SyncOf(c)].pc = "done" /\ task[SyncOf(c)].result = "success"
       \/ /\ task[SyncOf(c)].pc = "awaitResponse"
          /\ promise[The(task[SyncOf(c)].id)].state = "resolved"
          /\ (The(promise[The(task[SyncOf(c)].id)].response)).type = PROTOCOL_COMMAND_SYNC

\* C22: inSync becomes true only in the step in which a sync() resumes with
\* the response of its SYNC transaction, no timeout timer fires between
\* that response and that step, and after the step in which a timeout timer
\* fires inSync is false
C22_InSyncSinceSync ==
    [][/\ (inSync' /\ ~inSync)
          => \E c \in Callers : SyncSucceeded(c) /\ task[SyncOf(c)].pc = "done"
                                /\ resync'[c].pc = "done"
       /\ (\E c \in Callers : SyncSucceeded(c)) => ~TimesOut
       /\ TimesOut => ~inSync']_vars

\* a transaction timed out, and after it a sync() of syncIfNeeded got a
\* response and set inSync
C22_ResyncedAfterTimeout ==
    /\ inSync
    /\ \E c \in Calls : task[c].result = "TimeoutError"
    /\ \E c \in Callers : /\ resync[c].pc = "done"
                          /\ task[SyncOf(c)].result = "success"
\* a call of transaction() is registered and awaits its response
AwaitsResponse(c) ==
    /\ task[c].pc \in {"sendPacket", "awaitResponse"}
    /\ The(task[c].id) \in transactions

\* the reassembly buffer holds the first bytes of a frame that carries the
\* id of call c
PartlyReceived(c) ==
    /\ Len(dataBuffer) >= 8
    /\ getUint32(dataBuffer, 0, TRUE) = PROTOCOL_MAGIC
    /\ getUint32(dataBuffer, 4, TRUE) = U32(The(task[c].id))

\* C23: while a transaction is registered and awaits its response, of which
\* the reassembly buffer holds the first bytes, the buffer changes only in
\* the steps of the receive task, which takes a transfer from the transport
C23_OnlyReceiverWritesBuffer ==
    [][((\E c \in Slots : AwaitsResponse(c) /\ PartlyReceived(c)) /\ dataBuffer' # dataBuffer)
          => (usbIn # <<>> /\ usbIn' = Tail(usbIn))]_vars
\* this step is the call of sync() that begins a round of the loop of caller c
RoundBegins(c) ==
    /\ resync'[c].pc = "sync"
    /\ resync[c].pc = "none" \/ resync'[c].tries = resync[c].tries + 1

\* the sequence s ends with the sequence t
EndsWith(s, t) == Len(t) <= Len(s) /\ SliceFrom(s, Len(s) - Len(t)) = t

\* C24: the step that begins a sync round leaves the buffer empty; from
\* there until the SYNC frame of the round is written, the buffer is changed
\* only by the receive task, which leaves in it bytes of the buffer followed
\* by the bytes of the transfer it took, or by the begin of another round;
\* and the step that writes the SYNC frame leaves the buffer as it is
C24_ClearedBeforeSync ==
    [][\A c \in Callers :
          /\ RoundBegins(c) => dataBuffer' = <<>>
          /\ (resync[c].pc = "sync" /\ task[SyncOf(c)].pc = "waitTurn"
                /\ dataBuffer' # dataBuffer)
             => \/ dataBuffer' = <<>>
                \/ /\ usbIn # <<>>
                   /\ usbIn' = Tail(usbIn)
                   /\ EndsWith(concatBuffers(dataBuffer, Head(usbIn)), dataBuffer')
          /\ (task[SyncOf(c)].pc = "waitTurn" /\ task'[SyncOf(c)].pc = "sendPacket")
             => dataBuffer' = dataBuffer]_vars

\* the SYNC frame of a round is written while the buffer holds bytes, which
\* were received while the SYNC transaction waited in the queue
C24_SyncSentOverReceivedBytes ==
    \E c \in Callers : /\ resync[c].pc = "sync"
                       /\ task[SyncOf(c)].pc = "sendPacket"
                       /\ dataBuffer # <<>>
\* the buffer is one that the loop of _handleData looks at, and it neither
\* starts with the frame magic or the start of a diagnostic nor holds the
\* frame magic anywhere
Noise(buf) ==
    /\ Len(buf) >= HeaderLength
    /\ getUint32(buf, 0, TRUE) # PROTOCOL_MAGIC
    /\ getUint32(buf, 0, FALSE) # FIRMWARE_ERR_MAGIC_START
    /\ seekUint32(buf, PROTOCOL_MAGIC, TRUE) = -1

\* C25: _handleData leaves no buffer of 20 bytes or more that holds no
\* frame magic: of such a buffer it keeps 3 bytes at most
C25_NoiseDropped ==
    Noise(dataBuffer) => Len(dataBuffer) <= 3
\* what _handleData has made of a prefix and a frame: it has passed nothing
\* but the frame to _handlePacket, and once it has got all the bytes it has
\* passed the frame and has left the buffer empty
PrefixDropped ==
    /\ stream.frames \in {<<>>, <<stream.frame>>}
    /\ stream.todo = <<>> => stream.frames = <<stream.frame>> /\ dataBuffer = <<>>

\* C26 as stated: whenever bytes without a magic are followed by a complete
\* frame, _handleData drops the bytes, all of them and no more, and passes the
\* frame to _handlePacket
C26_PrefixDropped == PrefixDropped

\* the prefix is no diagnostic whose end marker has not arrived
Closed(prefix) ==
    (Len(prefix) >= 4 /\ getUint32(prefix, 0, FALSE) = FIRMWARE_ERR_MAGIC_START)
        => seekUint32(prefix, FIRMWARE_ERR_MAGIC_END, FALSE) # -1

\* C26, amended: the same for bytes that do not start a diagnostic whose end
\* marker has not arrived
C26_ClosedPrefixDropped == Closed(stream.prefix) => PrefixDropped

\* a diagnostic and a frame behind it were received, and the frame was passed on
C26_FrameAfterDiagnostic ==
    /\ stream.todo = <<>>
    /\ stream.prefix = FirmwareError
    /\ stream.frames = <<stream.frame>>
\* the buffer starts with the magic and does not hold the whole frame: it
\* holds less than a header, or less than the payload that the header declares
PartialFrame(buf) ==
    /\ Len(buf) >= 4
    /\ getUint32(buf, 0, TRUE) = PROTOCOL_MAGIC
    /\ \/ Len(buf) < HeaderLength
       \/ ~WordLeq(getUint32(buf, 12, TRUE), Len(buf) - HeaderLength)

\* C27: when the buffer with the bytes of a transfer appended to it starts
\* with the magic and does not hold the whole frame, _handleData passes
\* nothing to _handlePacket and leaves this buffer as it is
C27_PartialFrameWaits ==
    [][LET appended == concatBuffers(dataBuffer,
                           Slice(stream.todo, 0, Len(stream.todo) - Len(stream'.todo)))
       IN  (stream'.todo # stream.todo /\ PartialFrame(appended))
              => /\ dataBuffer' = appended
                 /\ stream'.frames = stream.frames]_vars

\* _handleData has got a header and a part of the payload it declares
C27_HeaderWithoutPayload ==
    /\ stream.whole # stream.todo
    /\ Len(dataBuffer) > HeaderLength
    /\ PartialFrame(dataBuffer)
\* C28: the frame that _sendPacket writes for an empty payload has 20 bytes
\* and payload_crc 0; a received frame with payload_length 0 that carries
\* the id of a registered transaction resolves it with an empty payload,
\* whatever its payload_crc field holds
C28_EmptyPayload ==
    [][\A c \in Calls :
          /\ (task[c].pc = "waitTurn" /\ task'[c].pc = "sendPacket" /\ task[c].payload = <<>>)
             => LET packet == Packet(The(task[c].id), task[c].command, task[c].payload)
                IN  /\ Len(packet) = 20
                    /\ getUint32(packet, 12, TRUE) = U32(0)
                    /\ getUint32(packet, 16, TRUE) = U32(0)
                    /\ devInbox' = Receive(devInbox, Request(packet))
          /\ (Receives(c) /\ getUint32(Head(usbIn), 12, TRUE) = U32(0))
             => /\ promise'[The(task[c].id)].state = "resolved"
                /\ promise'[The(task[c].id)].response =
                      {[type |-> getUint32(Head(usbIn), 8, TRUE), payload |-> <<>>]}
                /\ The(task[c].id) \notin transactions']_vars

\* a call has returned the empty payload of a frame whose payload_crc field
\* was not 0
C28_EmptyPayloadReturned ==
    \E c \in Calls : task[c].pc = "done" /\ task[c].result = "success"
                     /\ task[c].returned = {<<>>}
\* this step is call c calling waitTurn with a token that is not the
\* current one while the queue is occupied
PresentsStaleToken(c) ==
    /\ task[c].pc = "new"
    /\ task'[c].pc = "waitTurn"
    /\ task'[c].queueToken # {}
    /\ transactionQueue.current # {}
    /\ task'[c].queueToken # transactionQueue.current

\* C29: a call that presents a token which is not the current one while the
\* queue is occupied is appended to the waiters, as a call without a token
\* is, with the current token left as it is; and while an earlier waiter is
\* blocked it is not granted the queue
C29_StaleTokenQueues ==
    [][\A c \in Calls :
          /\ PresentsStaleToken(c)
             => /\ Blocked(c)'
                /\ transactionQueue'.current = transactionQueue.current
                /\ Len(transactionQueue'.queue) = Len(transactionQueue.queue) + 1
                /\ SubSeq(transactionQueue'.queue, 1, Len(transactionQueue.queue))
                     = transactionQueue.queue
                /\ transactionQueue'.queue[Len(transactionQueue'.queue)].resolve = c
          /\ \A b \in Calls :
                (b < c /\ Blocked(b) /\ Blocked(c) /\ task[c].queueToken # {})
                   => ~(Blocked(b)' /\ ~Blocked(c)')]_vars

\* a call that presented a token which was released by the expiry timer
\* waits behind a call without a token
C29_StaleBehindWaiter ==
    \E b, c \in Calls :
        /\ Blocked(b) /\ Blocked(c)
        /\ task[b].queueToken = {}
        /\ task[c].queueToken # {}
        /\ Len(transactionQueue.queue) = 2
        /\ transactionQueue.queue[1].resolve = b
        /\ transactionQueue.queue[2].resolve = c
\* the frame of call c has been written to the transport
Sent(c) ==
    \/ task[c].pc = "awaitResponse"
    \/ task[c].pc = "done" /\ task[c].result # "TransferError"

\* C30: when the frame of a call is written to the transport, its id is
\* greater than the id of every frame written before
C30_IdsInSendOrder ==
    [][\A c \in Calls :
          (task[c].pc = "waitTurn" /\ task'[c].pc = "sendPacket")
             => \A d \in Calls \ {c} :
                   Sent(d) => The(task[d].id) < The(task[c].id)]_vars
\* a step that hands a frame to the transport: the device has one more
\* request, and sent nothing
FrameWritten == devInbox' # devInbox /\ usbIn' = usbIn

\* C31: every frame written to the transport is written by a transaction
\* that holds the current token of the queue and is registered under its
\* id; no frame is written outside the admission of the queue, during
\* disconnect() included.
C31_FramesUnderToken ==
    [][FrameWritten =>
         \E c \in Slots : /\ task[c].pc = "waitTurn"
                          /\ task'[c].pc = "sendPacket"
                          /\ task[c].token # {}
                          /\ task[c].token = transactionQueue.current
                          /\ The(task[c].id) \in transactions']_vars
\* the connection is torn down: disconnect() closed the device, or the
\* receive task ended in its catch block
TornDown == link.teardown = "closed" \/ link.lost

\* call c is suspended on a pending promise that no timer will reject
Stranded(c) ==
    /\ Awaiting(c)
    /\ The(task[c].id) \in transactions
    /\ promise[The(task[c].id)].timer # "armed"

\* C32: when the connection is torn down, by disconnect() or by a failure of
\* the receive task, every transaction still registered is resolved with an
\* error and removed from the registry: after the teardown no caller of
\* transaction() is left suspended on a registered promise that nothing
\* will settle.
C32_NoneStrandedAfterTeardown == TornDown => \A c \in Slots : ~Stranded(c)
\* C38: after the receive task failed (a transferIn threw in _listen) the
\* session no longer reports itself as connected: isConnected, which returns
\* this.connected, is false, and assertConnected(), which throws unless
\* this.connected, throws.
C38_LostMeansDisconnected == link.lost => ~connected
\* the step in which the rejection of the transferOut leaves call c
SendFails(c) ==
    /\ task[c].pc = "sendPacket"
    /\ task'[c].pc = "done"
    /\ task'[c].result = "TransferError"

\* C34: if the transport write of _sendPacket fails after a transaction was
\* admitted, transaction() releases the token it was granted, removes its
\* registry entry and cancels its timeout timer before the error reaches
\* the caller: no held token and no registered transaction are left behind.
C34_FailedSendCleansUp ==
    [][\A c \in Calls :
         SendFails(c) =>
           LET id == The(task[c].id)
           IN  /\ task[c].queueToken = {} => transactionQueue'.current # task[c].token
               /\ id \notin transactions'
               /\ id \in DOMAIN promise' => promise'[id].timer # "armed"]_vars
\* C33: the NVS type names round-trip exactly: for every NVSType t,
\* nvsTypeStringToNumber(nvsTypeToString(t)) = t, and for every name s that
\* nvsTypeStringToNumber accepts, nvsTypeToString(nvsTypeStringToNumber(s)) = s.
C33_NamesRoundTrip ==
    /\ nvs.pc = "typeBack" => nvs.number = {nvs.type}
    /\ nvs.pc = "nameBack" => nvs.text = {nvs.name}
\* the step in which the expiry timer of the queue fires
ExpiryFires ==
    /\ transactionQueue.timeoutHandle # {}
    /\ (The(transactionQueue.timeoutHandle)).left = 0
    /\ transactionQueue' # transactionQueue
    /\ nextTransactionID' = nextTransactionID
    /\ \A c \in Slots : task'[c].pc = task[c].pc

\* call c was made without a token and with a timeout, and holds token t
TimedTurn(c, t) ==
    /\ task[c].pc \in {"sendPacket", "awaitResponse"}
    /\ task[c].queueToken = {}
    /\ task[c].timeout > 0
    /\ task[c].token = t

\* C35: for a transaction without a token and with timeout T > 0, the
\* expiry timer of the queue for its turn (T + 500 ms, armed at the grant)
\* never fires while the transaction is registered: its own timeout timer
\* (T, armed at the admission) has 500 ms less left and fires or is
\* cancelled first, so the expiry timer admits no second transaction while
\* the first awaits its response.
C35_ExpiryAfterTimeout ==
    /\ [](\A c \in Calls :
            (/\ TimedTurn(c, transactionQueue.current)
             /\ promise[The(task[c].id)].timer = "armed")
            => /\ transactionQueue.timeoutHandle # {}
               /\ (The(transactionQueue.timeoutHandle)).left
                    = promise[The(task[c].id)].left + TurnSlack)
    /\ [][ExpiryFires =>
            \A c \in Calls :
              TimedTurn(c, (The(transactionQueue.timeoutHandle)).token)
              => The(task[c].id) \notin transactions]_vars

\* the timeout timer of a call with a timeout fired, and the expiry timer of
\* its turn has 500 ms left
C35_TimedOutFirst ==
    \E c \in Calls :
        /\ TimedTurn(c, transactionQueue.current)
        /\ promise[The(task[c].id)].timer = "fired"
        /\ transactionQueue.timeoutHandle # {}
        /\ (The(transactionQueue.timeoutHandle)).left = TurnSlack
\* the tokens that tasks hold or present
TokensOut ==
    UNION {task[c].token \cup task[c].queueToken \cup task[c].held : c \in Tasks}

\* the step in which a caller releases token t: the holder of a chained
\* transfer, or a transaction without a token in its finally block
Releases(t) ==
    \/ /\ task[Chain].pc = "holding"
       /\ task'[Chain].pc = "done"
       /\ task[Chain].held = t
    \/ \E c \in Calls : /\ Returns(c)
                         /\ task[c].queueToken = {}
                         /\ task'[c].result # "TransferError"
                         /\ task[c].token = t

\* C36: queue tokens are never reissued, and release(t) with t different
\* from the current token leaves the queue unchanged (current token, waiter
\* list, expiry timer): a late release by a holder whose token was already
\* force-released, or a stale expiry timer, never ends another caller's turn.
C36_StaleReleaseIgnored ==
    /\ [](\A t \in TokensOut \cup transactionQueue.current :
              t < transactionQueue.nextToken)
    /\ [](\A h \in transactionQueue.timeoutHandle : h.token = transactionQueue.current)
    /\ [][/\ transactionQueue'.nextToken >= transactionQueue.nextToken
           /\ (/\ transactionQueue'.current # transactionQueue.current
               /\ transactionQueue'.current # {})
              => /\ transactionQueue'.current = {transactionQueue.nextToken}
                 /\ transactionQueue'.nextToken = transactionQueue.nextToken + 1
           /\ \A t \in SUBSET TokensOut :
                 Releases(t) /\ t # transactionQueue.current
                 => transactionQueue' = transactionQueue]_vars

\* the expiry timer took the token of the holder of a chained transfer, who
\* has not released it yet, and another call has its turn
C36_HolderForceReleased ==
    /\ task[Chain].pc = "holding"
    /\ task[Chain].held # {}
    /\ task[Chain].held # transactionQueue.current
    /\ \E c \in Calls : Awaiting(c) /\ task[c].token = transactionQueue.current
\* C37: after any sequence of waitTurn, release and expiry-timer events, a
\* non-empty waiter list implies that a current token exists (no waiter is
\* stranded on an unoccupied queue), and an expiry timer for the current
\* token is armed exactly when a current token exists.
C37_QueueInvariant ==
    /\ transactionQueue.queue # <<>> => transactionQueue.current # {}
    /\ transactionQueue.timeoutHandle # {} <=> transactionQueue.current # {}
    /\ \A h \in transactionQueue.timeoutHandle : h.token = transactionQueue.current

\* a caller waits on a queue that has granted its second token or a later
\* one, and the expiry timer of the current turn is due
C37_WaiterBehindSecondTurn ==
    /\ transactionQueue.queue # <<>>
    /\ transactionQueue.nextToken > 2
    /\ \E h \in transactionQueue.timeoutHandle : h.left = 0
\* every iteration of the loop started on buf returns or leaves a strictly
\* shorter buffer to the next one
RECURSIVE LoopShortens(_)
LoopShortens(buf) ==
    LET it == handleDataIteration(buf)
    IN  it.returns \/ (Len(it.buffer) < Len(buf) /\ LoopShortens(it.buffer))

\* the frames and the buffer that the iterations started on buf leave
RECURSIVE Iterated(_, _)
Iterated(buf, out) ==
    LET it == handleDataIteration(buf)
    IN  IF it.returns THEN [frames |-> out, buffer |-> it.buffer]
        ELSE Iterated(it.buffer, out \o it.frames)

\* C39: every _handleData call terminates, whatever the buffer holds: each
\* iteration of its loop returns or strictly shortens the reassembly buffer
\* (frame extraction, removal of a diagnostic block and removal of a noise
\* prefix each take at least one byte), and the iterations yield what the
\* call yields.
C39_EachIterationShortens ==
    \A n \in 1..Len(stream.todo) :
        LET buf == concatBuffers(dataBuffer, Slice(stream.todo, 0, n))
        IN  /\ LoopShortens(buf)
            /\ Iterated(buf, <<>>) = handleData(dataBuffer, Slice(stream.todo, 0, n))

\* a diagnostic and a frame were consumed: the diagnostic block, the
\* CR LF CR after it and the frame were taken off the buffer
C39_AllRemovalsDone ==
    /\ stream.todo = <<>>
    /\ dataBuffer = <<>>
    /\ Len(stream.frames) = 1
    /\ stream.whole = FirmwareError \o stream.frames[1]
====
